---- MODULE Spec2Model ----
(***************************************************************************)
(* Model of the skin-tone analysis and colour-matching code of the fashion *)
(* discovery application (src/lib/skin-tone-analysis.ts).                  *)
(*                                                                         *)
(* A JavaScript string is a sequence of one-character strings.  A number   *)
(* returned by Math.sqrt is represented by its radicand (MathSqrt below).  *)
(***************************************************************************)
EXTENDS Integers, Sequences, FiniteSets, TLC

VARIABLES
    pc,                 \* position of the call being modelled
    color1, color2,     \* arguments of colorDistance
    distance,           \* value returned by colorDistance
    clothingColorHex,   \* first argument of isColorMatch
    skinAnalysis,       \* second argument of isColorMatch (a SkinToneAnalysis)
    matchResult,        \* value returned by isColorMatch
    threshold,          \* distance threshold of a parametrised evaluation
    atResult,           \* match predicate evaluated at threshold
    widerThreshold,     \* a second threshold, >= threshold
    widerResult,        \* match predicate evaluated at widerThreshold
    averageColor,       \* the sampled colour { r, g, b }
    undertoneArg,       \* undertone argument handed to determineSeason
    undertone,          \* value returned by determineUndertone
    season,             \* value returned by determineSeason
    imageData,          \* the ImageData read back from the canvas
    sampledColor,       \* value returned by getAverageColor
    resolved,           \* the SkinToneAnalysis analyzeSkinTone resolved with
    colorName,          \* argument of getProductColorHex
    productColorHex,    \* value returned by getProductColorHex
    localStorage,       \* the item stored under SKIN_TONE_KEY: << >> or << text >>
    dispatched,         \* the skinToneUpdated events dispatched on window
    operations,         \* the storage operations completed so far
    flows,              \* the capturePhoto flows of the home page
    isAnalyzing,        \* the home page's analysing flag
    homeRevision,       \* which revision of the home page is running
    swipePage,          \* the swipe page component
    filtersMap,         \* the product filter manager's map of attributes
    productIds,         \* first argument of filterProducts
    activeFilters,      \* second argument of filterProducts
    filteredIds,        \* value returned by filterProducts
    request,            \* the request the multi try-on route received
    fashnApiKey,        \* process.env.FASHN_API_KEY
    sortedGarments,     \* the garments after the sort
    garmentIndex,       \* the loop variable i
    currentModelImage,  \* the model image of the next run request
    predictionId,       \* the id the last run response carried
    attempts,           \* waitForCompletion's counter
    statusRequests,     \* status requests issued by the current waitForCompletion
    runRequests,        \* the run requests sent to the try-on service
    runResponses,       \* the responses to them received so far
    lastStatus,         \* the last status response received
    waitResult,         \* value returned by waitForCompletion
    routeAnswer,        \* the response of the route
    selectionMode,      \* closet page: selectionMode
    selectedItems,      \* closet page: selectedItems
    closetCall,         \* the last handler the closet page ran
    selectedBefore,     \* selectedItems before that handler ran
    voiceStorage,       \* the item stored under 'activeFilters': << >> or << text >>
    swipeMounted,       \* whether the swipe page is mounted
    swipeActiveFilters, \* swipe page: activeFilters
    voiceApplied,       \* the voice filters last applied and the filters before
    filterOptions,      \* the product filter manager's filterOptions
    managerCall,        \* the last method called on the manager
    mapBefore,          \* filtersMap before that call
    optionsBefore,      \* filterOptions before that call
    llmCalls,           \* how many update calls were made
    pageKind,           \* which try-on page runs: single or multi
    tryOnMounted,       \* whether an instance of the page is mounted
    pageInstance,       \* the number of the instance mounted last
    tryOnState,         \* try-on page: tryOnState
    capturedImage,      \* try-on page: capturedImage
    tryOnFlows,         \* the startTryOn calls and polling chains still running
    lastPoll,           \* the last status response a chain of the mounted page received
    retaken,            \* retakePhoto ran and no try-on was started since
    listenerRevision,   \* which revision of the swipe page runs
    listenerMounted,    \* whether the swipe page is mounted
    windowListeners,    \* the skinToneUpdated listeners registered on window
    listenersAdded,     \* how many listeners were ever added
    effectListener,     \* the listener the mounted page's effect added, 0 if none
    rendersDone,        \* how many times the swipe page rendered
    callbackInvocations,\* how often the last update invoked the page's callback
    lastListenerStep    \* the last thing that happened to the page

vars == << pc, color1, color2, distance, clothingColorHex, skinAnalysis,
           matchResult, threshold, atResult, widerThreshold, widerResult,
           averageColor, undertoneArg, undertone, season,
           imageData, sampledColor, resolved,
           colorName, productColorHex,
           localStorage, dispatched, operations, flows, isAnalyzing,
           homeRevision, swipePage,
           filtersMap, productIds, activeFilters, filteredIds,
           request, fashnApiKey, sortedGarments, garmentIndex, currentModelImage, predictionId, attempts, statusRequests, runRequests, runResponses, lastStatus, waitResult, routeAnswer,
           selectionMode, selectedItems, closetCall, selectedBefore,
           voiceStorage, swipeMounted, swipeActiveFilters, voiceApplied,
           filterOptions, managerCall, mapBefore, optionsBefore, llmCalls,
           pageKind, tryOnMounted, pageInstance, tryOnState, capturedImage, tryOnFlows, lastPoll, retaken,
           listenerRevision, listenerMounted, windowListeners, listenersAdded, effectListener, rendersDone, callbackInvocations, lastListenerStep >>

matchVars == << clothingColorHex, skinAnalysis, matchResult, threshold,
                atResult, widerThreshold, widerResult >>
distanceVars == << color1, color2, distance >>
toneVars == << averageColor, undertoneArg, undertone, season >>
samplerVars == << imageData, sampledColor, resolved >>
\* the variables of the parts modelled further down
resolverVars == << colorName, productColorHex >>
appVars == << localStorage, dispatched, operations, flows, isAnalyzing,
             homeRevision, swipePage >>
filterVars == << filtersMap, productIds, activeFilters, filteredIds >>
routeVars == << request, fashnApiKey, sortedGarments, garmentIndex, currentModelImage, predictionId, attempts, statusRequests, runRequests, runResponses, lastStatus, waitResult, routeAnswer >>
closetVars == << selectionMode, selectedItems, closetCall, selectedBefore >>
voiceVars == << voiceStorage, swipeMounted, swipeActiveFilters, voiceApplied >>
managerVars == << filterOptions, managerCall, mapBefore, optionsBefore, llmCalls >>
tryOnVars == << pageKind, tryOnMounted, pageInstance, tryOnState, capturedImage, tryOnFlows, lastPoll, retaken >>
listenerVars == << listenerRevision, listenerMounted, windowListeners, listenersAdded, effectListener, rendersDone, callbackInvocations, lastListenerStep >>
laterVars == << samplerVars, resolverVars, appVars, filterVars, routeVars, closetVars, voiceVars, managerVars, tryOnVars, listenerVars >>
afterSamplerVars == << resolverVars, appVars, filterVars, routeVars, closetVars, voiceVars, managerVars, tryOnVars, listenerVars >>
afterResolverVars == << appVars, filterVars, routeVars, closetVars, voiceVars, managerVars, tryOnVars, listenerVars >>
afterAppVars == << filterVars, routeVars, closetVars, voiceVars, managerVars, tryOnVars, listenerVars >>
afterFilterVars == << routeVars, closetVars, voiceVars, managerVars, tryOnVars, listenerVars >>
afterRouteVars == << closetVars, voiceVars, managerVars, tryOnVars, listenerVars >>
afterClosetVars == << voiceVars, managerVars, tryOnVars, listenerVars >>
afterVoiceVars == << managerVars, tryOnVars, listenerVars >>
afterManagerVars == << tryOnVars, listenerVars >>
afterTryOnVars == << listenerVars >>

(***************************************************************************)
(* Program constants.                                                      *)
(***************************************************************************)
MatchThreshold == 150
MalformedDistance == 100
UndertoneMargin == 20
LightBrightness == 140

(***************************************************************************)
(* Bounds of the model.                                                    *)
(***************************************************************************)
\* longest recommendedColors list drawn for a profile
MaxRecommended == 2
\* channel values within this distance of LightBrightness are all sampled
HalfWindow == 6
\* the working canvas is 5 * CanvasFifths pixels wide and high (100 in the
\* program)
CanvasFifths == 1

(***************************************************************************)
(* Values.                                                                 *)
(***************************************************************************)
null == [null |-> TRUE]
None == "none"

\* The double Math.sqrt(n) for a natural n <= 3 * 255^2: Math.sqrt is correctly
\* rounded, so it is exact on perfect squares and distinct radicands give
\* distinct doubles.
MathSqrt(n) == [radicand |-> n]
\* The non-negative integer literal k as such a number.
Number(k) == MathSqrt(k * k)
\* x < t for a number x = Math.sqrt(n) and an integer t.
LessThan(x, t) == t > 0 /\ x.radicand < t * t

Range(s) == { s[i] : i \in 1..Len(s) }

(***************************************************************************)
(* hexToRgb: /^#?([a-f\d]{2})([a-f\d]{2})([a-f\d]{2})$/i and parseInt(_,16) *)
(***************************************************************************)
HexDigits == << "0", "1", "2", "3", "4", "5", "6", "7", "8", "9",
                "a", "b", "c", "d", "e", "f" >>
UpperHex == << "A", "B", "C", "D", "E", "F" >>

\* the i flag: an upper-case letter A-F matches its lower-case class member
foldCase(ch) ==
    IF \E i \in 1..6 : UpperHex[i] = ch
    THEN HexDigits[10 + (CHOOSE i \in 1..6 : UpperHex[i] = ch)]
    ELSE ch

isHexDigit(ch) == \E i \in 1..16 : HexDigits[i] = foldCase(ch)

hexDigitValue(ch) == (CHOOSE i \in 1..16 : HexDigits[i] = foldCase(ch)) - 1

\* parseInt(s, 16) of a two-digit group
parseInt16(pair) == 16 * hexDigitValue(pair[1]) + hexDigitValue(pair[2])

hexToRgb(hex) ==
    LET digits == IF Len(hex) > 0 /\ hex[1] = "#" THEN Tail(hex) ELSE hex
    IN  IF Len(digits) = 6 /\ \A i \in 1..6 : isHexDigit(digits[i])
        THEN [ r |-> parseInt16(SubSeq(digits, 1, 2)),
               g |-> parseInt16(SubSeq(digits, 3, 4)),
               b |-> parseInt16(SubSeq(digits, 5, 6)) ]
        ELSE null

(***************************************************************************)
(* colorDistance                                                           *)
(***************************************************************************)
\* Math.pow(x, 2)
pow2(x) == x * x

\* a slip: the green channel of color1 is compared with the blue one of color2
colorDistanceChannelSlip(c1, c2) ==
    LET rgb1 == hexToRgb(c1)
        rgb2 == hexToRgb(c2)
    IN  IF rgb1 = null \/ rgb2 = null
        THEN Number(MalformedDistance)
        ELSE MathSqrt(pow2(rgb1.r - rgb2.r) + pow2(rgb1.g - rgb2.b)
                      + pow2(rgb1.b - rgb2.b))

\* a slip: the blue channels are added instead of subtracted
colorDistanceBlueSum(c1, c2) ==
    LET rgb1 == hexToRgb(c1)
        rgb2 == hexToRgb(c2)
    IN  IF rgb1 = null \/ rgb2 = null
        THEN Number(MalformedDistance)
        ELSE MathSqrt(pow2(rgb1.r - rgb2.r) + pow2(rgb1.g - rgb2.g)
                      + pow2(rgb1.b + rgb2.b))

\* a slip: only the first argument is checked for a failed parse; a missing
\* second colour is then read as black
colorDistanceFirstOnly(c1, c2) ==
    LET rgb1 == hexToRgb(c1)
        rgb2 == IF hexToRgb(c2) = null THEN [r |-> 0, g |-> 0, b |-> 0]
                ELSE hexToRgb(c2)
    IN  IF rgb1 = null
        THEN Number(MalformedDistance)
        ELSE MathSqrt(pow2(rgb1.r - rgb2.r) + pow2(rgb1.g - rgb2.g)
                      + pow2(rgb1.b - rgb2.b))

colorDistance(c1, c2) ==
    LET rgb1 == hexToRgb(c1)
        rgb2 == hexToRgb(c2)
    IN  IF rgb1 = null \/ rgb2 = null
        THEN Number(MalformedDistance)
        ELSE MathSqrt(pow2(rgb1.r - rgb2.r) + pow2(rgb1.g - rgb2.g)
                      + pow2(rgb1.b - rgb2.b))

(***************************************************************************)
(* Colour strings drawn as inputs.                                         *)
(***************************************************************************)
Burgundy == << "#", "8", "0", "0", "0", "2", "0" >>
BurgundyBare == << "8", "0", "0", "0", "2", "0" >>
CoralUpper == << "#", "F", "F", "6", "B", "6", "B" >>
CoralLower == << "#", "f", "f", "6", "b", "6", "b" >>
CoralBareMixed == << "f", "F", "6", "b", "6", "B" >>
Black == << "#", "0", "0", "0", "0", "0", "0" >>
White == << "#", "F", "F", "F", "F", "F", "F" >>
Red150 == << "#", "9", "6", "0", "0", "0", "0" >>
Red149 == << "#", "9", "5", "0", "0", "0", "0" >>
Red100 == << "#", "6", "4", "0", "0", "0", "0" >>
Olive150 == << "#", "5", "a", "7", "8", "0", "0" >>
DefaultPurple == << "#", "6", "B", "4", "6", "C", "1" >>

EmptyString == << >>
ShortHex == << "#", "f", "f", "f" >>
FiveDigits == << "#", "8", "0", "0", "0", "2" >>
SevenDigits == << "#", "8", "0", "0", "0", "2", "0", "0" >>
NotHexLetter == << "#", "8", "0", "0", "0", "2", "g" >>
DoubleHash == << "#", "#", "8", "0", "0", "0", "2", "0" >>
ColorName == << "r", "e", "d" >>

ValidColors == { Burgundy, BurgundyBare, CoralUpper, CoralLower, CoralBareMixed,
                 Black, White, Red150, Red149, Red100, Olive150, DefaultPurple }
MalformedColors == { EmptyString, ShortHex, FiveDigits, SevenDigits,
                     NotHexLetter, DoubleHash, ColorName }
Colors == ValidColors \cup MalformedColors

(***************************************************************************)
(* Specification of colorDistance applied to drawn inputs.                 *)
(***************************************************************************)
IdleMatch ==
    /\ clothingColorHex = EmptyString
    /\ skinAnalysis = None
    /\ matchResult = None
    /\ threshold = 0
    /\ atResult = None
    /\ widerThreshold = 0
    /\ widerResult = None

IdleDistance ==
    /\ color1 = EmptyString
    /\ color2 = EmptyString
    /\ distance = None

IdleTone ==
    /\ averageColor = None
    /\ undertoneArg = None
    /\ undertone = None
    /\ season = None

IdleSampler ==
    /\ imageData = None
    /\ sampledColor = None
    /\ resolved = None

IdleResolver ==
    /\ colorName = None
    /\ productColorHex = None

IdleApp ==
    /\ localStorage = None
    /\ dispatched = None
    /\ operations = None
    /\ flows = None
    /\ isAnalyzing = None
    /\ homeRevision = None
    /\ swipePage = None

IdleFilter ==
    /\ filtersMap = None
    /\ productIds = None
    /\ activeFilters = None
    /\ filteredIds = None

IdleRoute ==
    /\ request = None
    /\ fashnApiKey = None
    /\ sortedGarments = None
    /\ garmentIndex = None
    /\ currentModelImage = None
    /\ predictionId = None
    /\ attempts = None
    /\ statusRequests = None
    /\ runRequests = None
    /\ runResponses = None
    /\ lastStatus = None
    /\ waitResult = None
    /\ routeAnswer = None

IdleCloset ==
    /\ selectionMode = None
    /\ selectedItems = None
    /\ closetCall = None
    /\ selectedBefore = None

IdleVoice ==
    /\ voiceStorage = None
    /\ swipeMounted = None
    /\ swipeActiveFilters = None
    /\ voiceApplied = None

IdleManager ==
    /\ filterOptions = None
    /\ managerCall = None
    /\ mapBefore = None
    /\ optionsBefore = None
    /\ llmCalls = None

IdleTryOn ==
    /\ pageKind = None
    /\ tryOnMounted = None
    /\ pageInstance = None
    /\ tryOnState = None
    /\ capturedImage = None
    /\ tryOnFlows = None
    /\ lastPoll = None
    /\ retaken = None

IdleListener ==
    /\ listenerRevision = None
    /\ listenerMounted = None
    /\ windowListeners = None
    /\ listenersAdded = None
    /\ effectListener = None
    /\ rendersDone = None
    /\ callbackInvocations = None
    /\ lastListenerStep = None

IdleLater == IdleSampler /\ IdleResolver /\ IdleApp /\ IdleFilter /\ IdleRoute /\ IdleCloset /\ IdleVoice /\ IdleManager /\ IdleTryOn /\ IdleListener
IdleAfterSampler == IdleResolver /\ IdleApp /\ IdleFilter /\ IdleRoute /\ IdleCloset /\ IdleVoice /\ IdleManager /\ IdleTryOn /\ IdleListener
IdleAfterResolver == IdleApp /\ IdleFilter /\ IdleRoute /\ IdleCloset /\ IdleVoice /\ IdleManager /\ IdleTryOn /\ IdleListener
IdleAfterApp == IdleFilter /\ IdleRoute /\ IdleCloset /\ IdleVoice /\ IdleManager /\ IdleTryOn /\ IdleListener
IdleAfterFilter == IdleRoute /\ IdleCloset /\ IdleVoice /\ IdleManager /\ IdleTryOn /\ IdleListener
IdleAfterRoute == IdleCloset /\ IdleVoice /\ IdleManager /\ IdleTryOn /\ IdleListener
IdleAfterCloset == IdleVoice /\ IdleManager /\ IdleTryOn /\ IdleListener
IdleAfterVoice == IdleManager /\ IdleTryOn /\ IdleListener
IdleAfterManager == IdleTryOn /\ IdleListener
IdleAfterTryOn == IdleListener

InitDistance ==
    /\ pc = "input"
    /\ color1 \in Colors
    /\ color2 \in Colors
    /\ distance = None
    /\ IdleMatch
    /\ IdleTone
    /\ IdleLater

ColorDistance ==
    /\ pc = "input"
    /\ distance' = colorDistance(color1, color2)
    /\ pc' = "measured"
    /\ UNCHANGED << color1, color2, matchVars, toneVars, laterVars >>

NextDistance == ColorDistance

SpecDistance == InitDistance /\ [][NextDistance]_vars

(***************************************************************************)
(* Claims about colorDistance (checked under SpecDistance).                *)
(***************************************************************************)

\* C4: colorDistance(a, b) returns exactly 100 whenever at least one of a, b
\* fails the 6-hex-digit parse, whether or not the other argument is valid.
C4_MalformedDistanceIs100 ==
    (pc = "measured" /\ (color1 \in MalformedColors \/ color2 \in MalformedColors))
        => distance = Number(100)

\* a valid first colour and a malformed second one were measured
C4_Witness ==
    /\ pc = "measured"
    /\ color1 \in ValidColors
    /\ color2 \in MalformedColors
    /\ distance = Number(100)

\* C6: colorDistance is symmetric for all pairs of inputs, valid or malformed:
\* the value returned for (a, b) is the value of colorDistance(b, a).
C6_DistanceSymmetric ==
    pc = "measured" => distance = colorDistance(color2, color1)

\* two different valid colours at a non-zero distance were measured
C6_Witness ==
    /\ pc = "measured"
    /\ color1 \in ValidColors
    /\ color2 \in ValidColors
    /\ color1 # color2
    /\ distance # Number(0)

\* C7: colorDistance(c, c) = 0 for every valid hex colour c, with or without
\* the leading '#' and in either letter case.
C7_DistanceToSelfIsZero ==
    (pc = "measured" /\ color1 \in ValidColors /\ color2 = color1)
        => distance = Number(0)

\* a colour written without '#' and in mixed case was measured against itself
C7_Witness ==
    /\ pc = "measured"
    /\ color1 = CoralBareMixed
    /\ color2 = color1
    /\ distance = Number(0)

(***************************************************************************)
(* isColorMatch                                                            *)
(***************************************************************************)
\* recommendedColors.some(recommended => colorDistance(c, recommended) < t),
\* scanning from index i and stopping at the first hit
RECURSIVE someWithin(_, _, _, _)
someWithin(c, recommendedColors, i, t) ==
    IF i > Len(recommendedColors) THEN FALSE
    ELSE IF LessThan(colorDistance(c, recommendedColors[i]), t) THEN TRUE
    ELSE someWithin(c, recommendedColors, i + 1, t)

\* a slip: .every in place of .some
isColorMatchAtEvery(c, analysis, t) ==
    \A i \in 1..Len(analysis.recommendedColors) :
        LessThan(colorDistance(c, analysis.recommendedColors[i]), t)

\* a slip: the comparison is turned round (> in place of <)
isColorMatchAtFlipped(c, analysis, t) ==
    \E i \in 1..Len(analysis.recommendedColors) :
        \/ t < 0
        \/ colorDistance(c, analysis.recommendedColors[i]).radicand > t * t

\* the body of isColorMatch with its literal 150 as the parameter t
isColorMatchAt(c, analysis, t) ==
    someWithin(c, analysis.recommendedColors, 1, t)

\* the stricter policy: within 80 of a recommended colour and at least 60
\* away from every avoid colour
isColorMatchStrict(c, analysis) ==
    /\ isColorMatchAt(c, analysis, 80)
    /\ \A i \in 1..Len(analysis.avoidColors) :
           ~ LessThan(colorDistance(c, analysis.avoidColors[i]), 60)

isColorMatch(c, analysis) == isColorMatchAt(c, analysis, MatchThreshold)

(***************************************************************************)
(* Profiles and thresholds drawn as inputs.                                *)
(***************************************************************************)
SeqsUpTo(S, n) == UNION { [1..k -> S] : k \in 0..n }

RecommendedPalette == { Burgundy, Black, CoralUpper, BurgundyBare, ShortHex }
RecommendedLists == SeqsUpTo(RecommendedPalette, MaxRecommended)
AvoidLists == { << >>, << Burgundy, White >> }
GarmentColors == { Burgundy, CoralLower, Black, White, Red150, Red149, Olive150,
                   DefaultPurple, ShortHex, EmptyString, NotHexLetter }

\* skinHex, undertone and season of the sampled colours (194,154,108) and
\* (80,90,110)
ProfileHeads ==
    { [ skinHex |-> << "#", "c", "2", "9", "a", "6", "c" >>,
        undertone |-> "warm", season |-> "spring" ],
      [ skinHex |-> << "#", "5", "0", "5", "a", "6", "e" >>,
        undertone |-> "cool", season |-> "winter" ] }

Profile(head, recommended, avoid) ==
    [ skinHex |-> head.skinHex, undertone |-> head.undertone,
      season |-> head.season, recommendedColors |-> recommended,
      avoidColors |-> avoid ]

Profiles ==
    { Profile(h, rec, av) : h \in ProfileHeads, rec \in RecommendedLists,
                            av \in AvoidLists }

Thresholds == { -1, 0, 1, 80, 150, 442 }

(***************************************************************************)
(* Specification of isColorMatch applied to drawn inputs.                  *)
(***************************************************************************)
InitMatch ==
    /\ pc = "input"
    /\ clothingColorHex \in GarmentColors
    /\ skinAnalysis \in Profiles
    /\ matchResult = None
    /\ threshold = 0
    /\ atResult = None
    /\ widerThreshold = 0
    /\ widerResult = None
    /\ IdleDistance
    /\ IdleTone
    /\ IdleLater

IsColorMatch ==
    /\ pc = "input"
    /\ matchResult' = isColorMatch(clothingColorHex, skinAnalysis)
    /\ pc' = "matched"
    /\ UNCHANGED << clothingColorHex, skinAnalysis, threshold, atResult,
                    widerThreshold, widerResult, distanceVars, toneVars, laterVars >>

\* the match predicate evaluated with distance threshold t
IsColorMatchAt(t) ==
    /\ pc = "input"
    /\ threshold' = t
    /\ atResult' = isColorMatchAt(clothingColorHex, skinAnalysis, t)
    /\ pc' = "at"
    /\ UNCHANGED << clothingColorHex, skinAnalysis, matchResult,
                    widerThreshold, widerResult, distanceVars, toneVars, laterVars >>

\* ... and evaluated again with a threshold t >= threshold
Widen(t) ==
    /\ pc = "at"
    /\ t >= threshold
    /\ widerThreshold' = t
    /\ widerResult' = isColorMatchAt(clothingColorHex, skinAnalysis, t)
    /\ pc' = "widened"
    /\ UNCHANGED << clothingColorHex, skinAnalysis, matchResult, threshold,
                    atResult, distanceVars, toneVars, laterVars >>

NextMatch ==
    \/ IsColorMatch
    \/ \E t \in Thresholds : IsColorMatchAt(t)
    \/ \E t \in Thresholds : Widen(t)

SpecMatch == InitMatch /\ [][NextMatch]_vars

(***************************************************************************)
(* Claims about isColorMatch (checked under SpecMatch).                    *)
(***************************************************************************)
Recommended == Range(skinAnalysis.recommendedColors)

\* C1: for every profile and every garment colour string that fails the
\* 6-hex-digit parse, isColorMatch returns false, whatever recommendedColors
\* holds.
C1_MalformedNeverMatches ==
    (pc = "matched" /\ clothingColorHex \in MalformedColors)
        => matchResult = FALSE

\* the squared RGB distance of two valid colours
SquaredRgbDistance(a, b) ==
    LET x == hexToRgb(a)
        y == hexToRgb(b)
    IN  (x.r - y.r) * (x.r - y.r) + (x.g - y.g) * (x.g - y.g)
        + (x.b - y.b) * (x.b - y.b)

\* colorDistance(c, k) < 150: for two valid colours, squared RGB distance
\* below 22500
DistanceBelow150(c, k) ==
    IF c \in ValidColors /\ k \in ValidColors
    THEN SquaredRgbDistance(c, k) < 22500
    ELSE LessThan(colorDistance(c, k), 150)

\* the profiles that differ from p at most in avoidColors, undertone, season
\* and skinHex
SameRecommended(p) ==
    { q \in Profiles : q.recommendedColors = p.recommendedColors }

\* C2: isColorMatch(c, profile) is true iff some colour k of
\* profile.recommendedColors has colorDistance(c, k) < 150; it is false for an
\* empty recommendedColors, and the result is the same for every profile with
\* the same recommendedColors, whatever its avoidColors, undertone, season and
\* skinHex.
C2_MatchIffSomeRecommendedWithin150 ==
    pc = "matched" =>
        /\ matchResult = (\E k \in Recommended : DistanceBelow150(clothingColorHex, k))
        /\ (skinAnalysis.recommendedColors = << >> => matchResult = FALSE)
        /\ \A q \in SameRecommended(skinAnalysis) :
               isColorMatch(clothingColorHex, q) = matchResult

\* a valid garment colour matched a profile with avoid colours through the
\* second of two recommended colours
C2_Witness ==
    /\ pc = "matched"
    /\ clothingColorHex = Red149
    /\ skinAnalysis.recommendedColors = << CoralUpper, Black >>
    /\ skinAnalysis.avoidColors # << >>
    /\ matchResult = TRUE

\* a valid garment colour at distance exactly 150 of the only recommended
\* colour did not match
C2_WitnessNoMatch ==
    /\ pc = "matched"
    /\ clothingColorHex \in { Red150, Olive150 }
    /\ skinAnalysis.recommendedColors = << Black >>
    /\ matchResult = FALSE

\* C3 as stated: a valid colour c that is in recommendedColors matches at any
\* non-negative threshold t, t = 0 included.
C3_RecommendedMatchesAtAnyNonNegativeThreshold ==
    (/\ pc = "at"
     /\ clothingColorHex \in ValidColors
     /\ clothingColorHex \in Recommended
     /\ threshold >= 0)
        => atResult = TRUE

\* C3 (amended): a valid colour c that is in recommendedColors matches at any
\* positive threshold t, because colorDistance(c, c) = 0 < t.
C3_RecommendedMatchesAtAnyPositiveThreshold ==
    (/\ pc = "at"
     /\ clothingColorHex \in ValidColors
     /\ clothingColorHex \in Recommended
     /\ threshold > 0)
        => atResult = TRUE

\* burgundy matched a profile holding burgundy after another colour, at the
\* smallest positive threshold
C3_Witness ==
    /\ pc = "at"
    /\ clothingColorHex = Burgundy
    /\ skinAnalysis.recommendedColors = << CoralUpper, Burgundy >>
    /\ threshold = 1
    /\ atResult = TRUE

\* C5: the match predicate is monotonic in its threshold: for t1 <= t2, a
\* colour that matches a profile under t1 matches it under t2.
C5_MonotonicInThreshold ==
    (pc = "widened" /\ threshold <= widerThreshold /\ atResult = TRUE)
        => widerResult = TRUE

\* a colour that did not match under the narrower threshold matched under a
\* strictly wider one, and one that matched kept matching
C5_Witness ==
    /\ pc = "widened"
    /\ threshold < widerThreshold
    /\ clothingColorHex \in ValidColors
    /\ atResult = FALSE
    /\ widerResult = TRUE

C5_WitnessKept ==
    /\ pc = "widened"
    /\ threshold < widerThreshold
    /\ atResult = TRUE
    /\ widerResult = TRUE

(***************************************************************************)
(* determineUndertone and determineSeason                                  *)
(***************************************************************************)
\* a slip: >= in place of > in both comparisons
determineUndertoneInclusive(r, g, b) ==
    LET yellowness == (r + g) - b
        pinkness == (r + b) - g
    IN  IF yellowness >= pinkness + UndertoneMargin THEN "warm"
        ELSE IF pinkness >= yellowness + UndertoneMargin THEN "cool"
        ELSE "neutral"

\* a slip: >= in place of > in the second comparison only
determineUndertoneLopsided(r, g, b) ==
    LET yellowness == (r + g) - b
        pinkness == (r + b) - g
    IN  IF yellowness > pinkness + UndertoneMargin THEN "warm"
        ELSE IF pinkness >= yellowness + UndertoneMargin THEN "cool"
        ELSE "neutral"

determineUndertone(r, g, b) ==
    LET yellowness == (r + g) - b
        pinkness == (r + b) - g
    IN  IF yellowness > pinkness + UndertoneMargin THEN "warm"
        ELSE IF pinkness > yellowness + UndertoneMargin THEN "cool"
        ELSE "neutral"

\* (r + g + b) / 3 as the rational quot + rem / 3; the double nearest to it
\* compares with 140 as the rational does
brightnessOf(r, g, b) == [ quot |-> (r + g + b) \div 3, rem |-> (r + g + b) % 3 ]

\* brightness > 140
isLightOf(brightness) ==
    \/ brightness.quot > LightBrightness
    \/ brightness.quot = LightBrightness /\ brightness.rem > 0

\* a slip: the brightness is truncated to an integer before the comparison
determineSeasonTruncated(r, g, b, u) ==
    LET isLight == brightnessOf(r, g, b).quot > LightBrightness
    IN  IF u = "warm"
        THEN (IF isLight THEN "spring" ELSE "autumn")
        ELSE (IF isLight THEN "summer" ELSE "winter")

determineSeason(r, g, b, u) ==
    LET brightness == brightnessOf(r, g, b)
        isLight == isLightOf(brightness)
    IN  IF u = "warm"
        THEN (IF isLight THEN "spring" ELSE "autumn")
        ELSE (IF isLight THEN "summer" ELSE "winter")

(***************************************************************************)
(* Specification of the two classifiers applied to drawn inputs.           *)
(***************************************************************************)
ChannelSamples == { 0, 80, 90, 110, 180, 220, 255 }
Channels ==
    ChannelSamples \cup
    { v \in 0..255 : v >= LightBrightness - HalfWindow
                     /\ v <= LightBrightness + HalfWindow }
Undertones == { "warm", "cool", "neutral" }
Seasons == { "spring", "summer", "autumn", "winter" }

InitTone ==
    /\ pc = "input"
    /\ averageColor \in [ r : Channels, g : Channels, b : Channels ]
    /\ undertoneArg = None
    /\ undertone = None
    /\ season = None
    /\ IdleDistance
    /\ IdleMatch
    /\ IdleLater

DetermineUndertone ==
    /\ pc = "input"
    /\ undertone' = determineUndertone(averageColor.r, averageColor.g, averageColor.b)
    /\ pc' = "undertone"
    /\ UNCHANGED << averageColor, undertoneArg, season, distanceVars, matchVars,
                    laterVars >>

DetermineSeason(u) ==
    /\ pc = "input"
    /\ undertoneArg' = u
    /\ season' = determineSeason(averageColor.r, averageColor.g, averageColor.b, u)
    /\ pc' = "season"
    /\ UNCHANGED << averageColor, undertone, distanceVars, matchVars, laterVars >>

NextTone ==
    \/ DetermineUndertone
    \/ \E u \in Undertones : DetermineSeason(u)

SpecTone == InitTone /\ [][NextTone]_vars

(***************************************************************************)
(* Claims about the classifiers (checked under SpecTone).                  *)
(***************************************************************************)

\* C8: for every RGB triple, determineUndertone returns exactly one of warm,
\* cool, neutral: warm iff (r+g)-b > (r+b)-g + 20, cool iff
\* (r+b)-g > (r+g)-b + 20, neutral otherwise (all differences within +/-20);
\* (220,180,140) is warm and (80,90,110) is cool.
C8_UndertoneByMargin ==
    pc = "undertone" =>
        LET r == averageColor.r
            g == averageColor.g
            b == averageColor.b
            diff == ((r + g) - b) - ((r + b) - g)
        IN  /\ undertone \in Undertones
            /\ (undertone = "warm") <=> ((r + g) - b > (r + b) - g + 20)
            /\ (undertone = "cool") <=> ((r + b) - g > (r + g) - b + 20)
            /\ (undertone = "neutral") <=> (diff >= -20 /\ diff <= 20)
            /\ (averageColor = [r |-> 220, g |-> 180, b |-> 140] => undertone = "warm")
            /\ (averageColor = [r |-> 80, g |-> 90, b |-> 110] => undertone = "cool")

\* a colour whose difference is exactly the margin was classified neutral
C8_Witness ==
    /\ pc = "undertone"
    /\ averageColor.g - averageColor.b = 10
    /\ undertone = "neutral"

Flip(u) == CASE u = "warm" -> "cool" [] u = "cool" -> "warm" [] OTHER -> u

\* C9: exchanging the g and b channels (which negates yellowness - pinkness)
\* maps warm to cool, cool to warm and neutral to neutral.
C9_UndertoneSymmetric ==
    pc = "undertone" =>
        determineUndertone(averageColor.r, averageColor.b, averageColor.g)
            = Flip(undertone)

\* a colour just outside the neutral band on the cool side was classified
C9_Witness ==
    /\ pc = "undertone"
    /\ averageColor.b - averageColor.g = 11
    /\ undertone = "cool"

ExpectedSeason(u, light) ==
    CASE u = "warm" /\ light -> "spring"
      [] u = "warm" /\ ~light -> "autumn"
      [] u \in { "cool", "neutral" } /\ light -> "summer"
      [] u \in { "cool", "neutral" } /\ ~light -> "winter"

\* C10: for every RGB triple and every undertone, determineSeason returns
\* the one season fixed by (undertone, r+g+b > 420): warm/light spring,
\* warm/dark autumn, cool or neutral/light summer, cool or neutral/dark
\* winter; brightness exactly 140 (r+g+b = 420) counts as dark.
C10_SeasonByUndertoneAndLightness ==
    pc = "season" =>
        LET sum == averageColor.r + averageColor.g + averageColor.b
        IN  /\ season \in Seasons
            /\ season = ExpectedSeason(undertoneArg, sum > 420)
            /\ (sum = 420 => season \in { "autumn", "winter" })

\* a neutral undertone at brightness exactly 140 gave winter
C10_Witness ==
    /\ pc = "season"
    /\ averageColor.r + averageColor.g + averageColor.b = 420
    /\ undertoneArg = "neutral"
    /\ season = "winter"

(***************************************************************************)
(* The skin sampler: extractSkinPixels, isSkinLike, getAverageColor.       *)
(* A pixel is << r, g, b >> (the alpha byte is never read); imageData.data *)
(* holds the pixels row by row, pixel (x, y) at index y * width + x + 1.   *)
(***************************************************************************)
Max3(a, b, c) == IF a >= b /\ a >= c THEN a ELSE IF b >= c THEN b ELSE c
Min3(a, b, c) == IF a <= b /\ a <= c THEN a ELSE IF b <= c THEN b ELSE c
Abs(x) == IF x < 0 THEN -x ELSE x

isSkinLike(r, g, b) ==
    LET max == Max3(r, g, b)
        min == Min3(r, g, b)
    IN  /\ r > 95 /\ g > 40 /\ b > 20
        /\ max - min > 15
        /\ Abs(r - g) > 15
        /\ r > g /\ r > b

\* Math.floor(n * 0.2) and Math.floor(n * 0.8): the doubles 0.2 and 0.8 lie
\* just above 1/5 and 4/5 by less than one part in 10^16, so for a small
\* natural n the floor is that of n / 5 and of 4 * n / 5
floorTimes02(n) == (2 * n) \div 10
floorTimes08(n) == (8 * n) \div 10

pixelAt(img, x, y) == img.data[y * img.width + x + 1]

\* the two nested loops, continued from pixel (x, y) with the pixels pushed
\* so far
RECURSIVE scanPixels(_, _, _, _, _, _, _, _)
scanPixels(img, startX, endX, startY, endY, x, y, pixels) ==
    IF y >= endY THEN pixels
    ELSE IF x >= endX
         THEN scanPixels(img, startX, endX, startY, endY, startX, y + 1, pixels)
    ELSE LET px == pixelAt(img, x, y)
         IN  scanPixels(img, startX, endX, startY, endY, x + 1, y,
                        IF isSkinLike(px[1], px[2], px[3])
                        THEN Append(pixels, px) ELSE pixels)

\* a slip: the loops run over the whole image
extractSkinPixelsWholeImage(img) ==
    scanPixels(img, 0, img.width, 0, img.height, 0, 0, << >>)

extractSkinPixels(img) ==
    LET startX == floorTimes02(img.width)
        endX == floorTimes08(img.width)
        startY == floorTimes02(img.height)
        endY == floorTimes08(img.height)
    IN  scanPixels(img, startX, endX, startY, endY, startX, startY, << >>)

\* pixels.reduce(...): the channel sums, folded from the left
RECURSIVE sumPixels(_, _, _)
sumPixels(pixels, i, acc) ==
    IF i > Len(pixels) THEN acc
    ELSE sumPixels(pixels, i + 1,
                   [ r |-> acc.r + pixels[i][1], g |-> acc.g + pixels[i][2],
                     b |-> acc.b + pixels[i][3] ])

\* Math.round(s / n) for naturals s and n > 0: halves round up
roundDiv(s, n) == (2 * s + n) \div (2 * n)

\* a slip: the fallback colour with its red and blue values exchanged
getAverageColorSwappedFallback(pixels) ==
    IF Len(pixels) = 0
    THEN [ r |-> 108, g |-> 154, b |-> 194 ]
    ELSE LET sum == sumPixels(pixels, 1, [ r |-> 0, g |-> 0, b |-> 0 ])
         IN  [ r |-> roundDiv(sum.r, Len(pixels)),
               g |-> roundDiv(sum.g, Len(pixels)),
               b |-> roundDiv(sum.b, Len(pixels)) ]

\* a slip: Math.floor in place of Math.round
getAverageColorFloor(pixels) ==
    IF Len(pixels) = 0
    THEN [ r |-> 194, g |-> 154, b |-> 108 ]
    ELSE LET sum == sumPixels(pixels, 1, [ r |-> 0, g |-> 0, b |-> 0 ])
         IN  [ r |-> sum.r \div Len(pixels),
               g |-> sum.g \div Len(pixels),
               b |-> sum.b \div Len(pixels) ]

getAverageColor(pixels) ==
    IF Len(pixels) = 0
    THEN [ r |-> 194, g |-> 154, b |-> 108 ]
    ELSE LET sum == sumPixels(pixels, 1, [ r |-> 0, g |-> 0, b |-> 0 ])
         IN  [ r |-> roundDiv(sum.r, Len(pixels)),
               g |-> roundDiv(sum.g, Len(pixels)),
               b |-> roundDiv(sum.b, Len(pixels)) ]

(***************************************************************************)
(* rgbToHex, getColorRecommendations, analyzeSkinCharacteristics.          *)
(***************************************************************************)
\* n.toString(16) for a natural n
RECURSIVE toString16(_)
toString16(n) ==
    IF n < 16 THEN << HexDigits[n + 1] >>
    ELSE Append(toString16(n \div 16), HexDigits[(n % 16) + 1])

\* "#" + ((1 << 24) + (r << 16) + (g << 8) + b).toString(16).slice(1)
rgbToHex(r, g, b) ==
    << "#" >> \o Tail(toString16(16777216 + r * 65536 + g * 256 + b))

SpringRecommended ==
    << << "#", "F", "F", "6", "B", "6", "B" >>,
       << "#", "4", "E", "C", "D", "C", "4" >>,
       << "#", "4", "5", "B", "7", "D", "1" >>,
       << "#", "9", "6", "C", "E", "B", "4" >>,
       << "#", "F", "E", "C", "A", "5", "7" >>,
       << "#", "F", "F", "9", "F", "F", "3" >>,
       << "#", "5", "4", "A", "0", "F", "F" >>,
       << "#", "F", "F", "0", "0", "0", "0" >>,
       << "#", "F", "F", "A", "5", "0", "0" >>,
       << "#", "F", "F", "F", "F", "0", "0" >>,
       << "#", "F", "F", "D", "7", "0", "0" >>,
       << "#", "F", "F", "7", "F", "5", "0" >>,
       << "#", "F", "F", "6", "9", "B", "4" >>,
       << "#", "0", "0", "F", "F", "0", "0" >>,
       << "#", "3", "2", "C", "D", "3", "2" >>,
       << "#", "A", "D", "F", "F", "2", "F" >>,
       << "#", "0", "0", "C", "E", "D", "1" >>,
       << "#", "1", "E", "9", "0", "F", "F" >>,
       << "#", "F", "F", "1", "4", "9", "3" >>,
       << "#", "F", "F", "6", "3", "4", "7" >>,
       << "#", "F", "F", "A", "5", "0", "2" >>,
       << "#", "F", "3", "9", "C", "1", "2" >>,
       << "#", "E", "7", "4", "C", "3", "C" >>,
       << "#", "E", "6", "7", "E", "2", "2" >>,
       << "#", "2", "E", "C", "C", "7", "1" >>,
       << "#", "3", "4", "9", "8", "D", "B" >>,
       << "#", "9", "B", "5", "9", "B", "6" >>,
       << "#", "F", "1", "C", "4", "0", "F" >>,
       << "#", "F", "F", "8", "C", "0", "0" >>,
       << "#", "D", "C", "1", "4", "3", "C" >>,
       << "#", "0", "0", "B", "F", "F", "F" >>,
       << "#", "F", "F", "4", "5", "0", "0" >>,
       << "#", "D", "A", "7", "0", "D", "6" >>,
       << "#", "2", "0", "B", "2", "A", "A" >>,
       << "#", "8", "7", "C", "E", "E", "B" >>,
       << "#", "F", "F", "B", "6", "C", "1" >>,
       << "#", "9", "8", "F", "B", "9", "8" >>,
       << "#", "D", "D", "A", "0", "D", "D" >>,
       << "#", "F", "0", "E", "6", "8", "C" >>,
       << "#", "F", "A", "8", "0", "7", "2" >>,
       << "#", "4", "0", "E", "0", "D", "0" >>,
       << "#", "E", "E", "8", "2", "E", "E" >> >>

SummerRecommended ==
    << << "#", "A", "8", "E", "6", "C", "F" >>,
       << "#", "8", "8", "D", "8", "C", "0" >>,
       << "#", "F", "F", "D", "3", "A", "5" >>,
       << "#", "F", "D", "9", "9", "A", "9" >>,
       << "#", "C", "7", "C", "E", "E", "A" >>,
       << "#", "B", "8", "B", "8", "D", "4" >>,
       << "#", "E", "6", "E", "6", "F", "A" >>,
       << "#", "B", "0", "C", "4", "D", "E" >>,
       << "#", "8", "7", "C", "E", "E", "B" >>,
       << "#", "F", "0", "F", "8", "F", "F" >>,
       << "#", "E", "0", "F", "F", "F", "F" >>,
       << "#", "F", "5", "F", "F", "F", "A" >>,
       << "#", "F", "F", "F", "8", "D", "C" >>,
       << "#", "F", "F", "F", "A", "C", "D" >>,
       << "#", "F", "F", "E", "F", "D", "5" >>,
       << "#", "F", "5", "F", "5", "D", "C" >>,
       << "#", "F", "A", "F", "0", "E", "6" >>,
       << "#", "F", "D", "F", "5", "E", "6" >>,
       << "#", "F", "F", "F", "F", "F", "0" >>,
       << "#", "F", "0", "F", "F", "F", "0" >>,
       << "#", "F", "5", "F", "F", "F", "A" >>,
       << "#", "F", "F", "F", "A", "F", "A" >>,
       << "#", "F", "8", "F", "8", "F", "F" >>,
       << "#", "F", "0", "F", "8", "F", "F" >>,
       << "#", "A", "D", "D", "8", "E", "6" >>,
       << "#", "B", "0", "E", "0", "E", "6" >>,
       << "#", "8", "7", "C", "E", "F", "A" >>,
       << "#", "0", "0", "B", "F", "F", "F" >>,
       << "#", "1", "E", "9", "0", "F", "F" >>,
       << "#", "6", "4", "9", "5", "E", "D" >>,
       << "#", "4", "1", "6", "9", "E", "1" >>,
       << "#", "0", "0", "0", "0", "C", "D" >>,
       << "#", "0", "0", "0", "0", "8", "B" >>,
       << "#", "0", "0", "0", "0", "8", "0" >>,
       << "#", "1", "9", "1", "9", "7", "0" >>,
       << "#", "8", "A", "2", "B", "E", "2" >>,
       << "#", "9", "4", "0", "0", "D", "3" >>,
       << "#", "9", "9", "3", "2", "C", "C" >>,
       << "#", "B", "A", "5", "5", "D", "3" >>,
       << "#", "D", "A", "7", "0", "D", "6" >>,
       << "#", "D", "D", "A", "0", "D", "D" >>,
       << "#", "E", "E", "8", "2", "E", "E" >> >>

AutumnRecommended ==
    << << "#", "D", "6", "3", "0", "3", "1" >>,
       << "#", "E", "1", "7", "0", "5", "5" >>,
       << "#", "F", "D", "C", "B", "6", "E" >>,
       << "#", "E", "8", "4", "3", "9", "3" >>,
       << "#", "6", "C", "5", "C", "E", "7" >>,
       << "#", "A", "2", "9", "B", "F", "E" >>,
       << "#", "8", "B", "4", "5", "1", "3" >>,
       << "#", "A", "0", "5", "2", "2", "D" >>,
       << "#", "C", "D", "8", "5", "3", "F" >>,
       << "#", "D", "2", "6", "9", "1", "E" >>,
       << "#", "B", "2", "2", "2", "2", "2" >>,
       << "#", "D", "C", "1", "4", "3", "C" >>,
       << "#", "8", "0", "0", "0", "0", "0" >>,
       << "#", "8", "B", "0", "0", "0", "0" >>,
       << "#", "F", "F", "6", "3", "4", "7" >>,
       << "#", "F", "F", "4", "5", "0", "0" >>,
       << "#", "F", "F", "8", "C", "0", "0" >>,
       << "#", "F", "F", "A", "5", "0", "0" >>,
       << "#", "F", "F", "D", "7", "0", "0" >>,
       << "#", "F", "F", "F", "F", "0", "0" >>,
       << "#", "9", "A", "C", "D", "3", "2" >>,
       << "#", "3", "2", "C", "D", "3", "2" >>,
       << "#", "2", "2", "8", "B", "2", "2" >>,
       << "#", "0", "0", "6", "4", "0", "0" >>,
       << "#", "5", "5", "6", "B", "2", "F" >>,
       << "#", "8", "0", "8", "0", "0", "0" >>,
       << "#", "6", "B", "8", "E", "2", "3" >>,
       << "#", "B", "D", "B", "7", "6", "B" >>,
       << "#", "F", "0", "E", "6", "8", "C" >>,
       << "#", "E", "E", "E", "8", "A", "A" >>,
       << "#", "D", "A", "A", "5", "2", "0" >>,
       << "#", "B", "8", "8", "6", "0", "B" >>,
       << "#", "C", "D", "8", "5", "3", "F" >>,
       << "#", "D", "2", "B", "4", "8", "C" >>,
       << "#", "F", "4", "A", "4", "6", "0" >>,
       << "#", "D", "E", "B", "8", "8", "7" >>,
       << "#", "B", "C", "8", "F", "8", "F" >>,
       << "#", "F", "5", "D", "E", "B", "3" >>,
       << "#", "F", "F", "D", "A", "B", "9" >>,
       << "#", "F", "F", "E", "4", "B", "5" >>,
       << "#", "F", "F", "E", "F", "D", "5" >>,
       << "#", "F", "F", "F", "8", "D", "C" >> >>

WinterRecommended ==
    << << "#", "2", "D", "3", "4", "3", "6" >>,
       << "#", "6", "3", "6", "E", "7", "2" >>,
       << "#", "0", "9", "8", "4", "E", "3" >>,
       << "#", "6", "C", "5", "C", "E", "7" >>,
       << "#", "E", "8", "4", "3", "9", "3" >>,
       << "#", "F", "D", "C", "B", "6", "E" >>,
       << "#", "0", "0", "0", "0", "0", "0" >>,
       << "#", "2", "F", "3", "6", "4", "0" >>,
       << "#", "2", "C", "2", "C", "5", "4" >>,
       << "#", "4", "0", "4", "0", "7", "A" >>,
       << "#", "7", "0", "6", "F", "D", "3" >>,
       << "#", "3", "7", "4", "2", "F", "A" >>,
       << "#", "2", "E", "D", "5", "7", "3" >>,
       << "#", "7", "B", "E", "D", "9", "F" >>,
       << "#", "7", "0", "A", "1", "F", "F" >>,
       << "#", "5", "3", "5", "2", "E", "D" >>,
       << "#", "F", "F", "6", "B", "6", "B" >>,
       << "#", "F", "F", "7", "6", "7", "5" >>,
       << "#", "F", "D", "C", "B", "6", "E" >>,
       << "#", "E", "1", "7", "0", "5", "5" >>,
       << "#", "0", "0", "D", "2", "D", "3" >>,
       << "#", "0", "0", "C", "E", "C", "9" >>,
       << "#", "6", "C", "5", "C", "E", "7" >>,
       << "#", "A", "2", "9", "B", "F", "E" >>,
       << "#", "F", "D", "7", "9", "A", "8" >>,
       << "#", "F", "D", "C", "B", "6", "E" >>,
       << "#", "E", "8", "4", "3", "9", "3" >>,
       << "#", "0", "0", "B", "8", "9", "4" >>,
       << "#", "7", "4", "B", "9", "F", "F" >>,
       << "#", "0", "9", "8", "4", "E", "3" >>,
       << "#", "F", "F", "F", "F", "F", "F" >>,
       << "#", "F", "8", "F", "9", "F", "A" >>,
       << "#", "E", "9", "E", "C", "E", "F" >>,
       << "#", "D", "E", "E", "2", "E", "6" >>,
       << "#", "C", "E", "D", "4", "D", "A" >>,
       << "#", "A", "D", "B", "5", "B", "D" >>,
       << "#", "4", "9", "5", "0", "5", "7" >>,
       << "#", "3", "4", "3", "A", "4", "0" >>,
       << "#", "2", "1", "2", "5", "2", "9" >>,
       << "#", "F", "F", "0", "0", "0", "0" >>,
       << "#", "0", "0", "0", "0", "F", "F" >>,
       << "#", "8", "0", "0", "0", "8", "0" >> >>

\* colorMap[season] || colorMap.autumn; every avoid list is empty
getColorRecommendations(s, u) ==
    CASE s = "spring" -> [ recommended |-> SpringRecommended, avoid |-> << >> ]
      [] s = "summer" -> [ recommended |-> SummerRecommended, avoid |-> << >> ]
      [] s = "winter" -> [ recommended |-> WinterRecommended, avoid |-> << >> ]
      [] OTHER -> [ recommended |-> AutumnRecommended, avoid |-> << >> ]

analyzeSkinCharacteristics(color) ==
    LET u == determineUndertone(color.r, color.g, color.b)
        s == determineSeason(color.r, color.g, color.b, u)
        rec == getColorRecommendations(s, u)
    IN  [ undertone |-> u, season |-> s,
          recommendedColors |-> rec.recommended, avoidColors |-> rec.avoid ]

\* the value img.onload resolves the promise with
analysisOf(img) ==
    LET skinPixels == extractSkinPixels(img)
        color == getAverageColor(skinPixels)
        rest == analyzeSkinCharacteristics(color)
    IN  [ skinHex |-> rgbToHex(color.r, color.g, color.b),
          undertone |-> rest.undertone, season |-> rest.season,
          recommendedColors |-> rest.recommendedColors,
          avoidColors |-> rest.avoidColors ]

(***************************************************************************)
(* Images drawn as inputs: a background with at most one other pixel.      *)
(***************************************************************************)
BluePixel == << 0, 0, 255 >>
SkinPixelA == << 220, 180, 140 >>
SkinPixelB == << 201, 150, 111 >>
\* the darkest pixel the heuristic accepts
MinSkinPixel == << 96, 41, 21 >>
\* fails |r - g| > 15 only
NearSkinPixel == << 111, 96, 50 >>

PaintPixels == { BluePixel, SkinPixelB, MinSkinPixel, NearSkinPixel }
CanvasSize == 5 * CanvasFifths
Backgrounds == { "blue", "skin", "stripes" }

backgroundPixel(bg, x, y) ==
    CASE bg = "blue" -> BluePixel
      [] bg = "skin" -> SkinPixelA
      [] OTHER -> IF x % 2 = 0 THEN SkinPixelA ELSE SkinPixelB

Positions == (0..(CanvasSize - 1)) \X (0..(CanvasSize - 1))

\* no pixel painted, or one position painted with one paint pixel
PaintJobs ==
    { [ pos \in { } |-> BluePixel ] } \cup
    { [ pos \in { at } |-> px ] : at \in Positions, px \in PaintPixels }

paintedImage(bg, job) ==
    [ width |-> CanvasSize, height |-> CanvasSize,
      data |-> [ i \in 1..(CanvasSize * CanvasSize) |->
                   LET x == (i - 1) % CanvasSize
                       y == (i - 1) \div CanvasSize
                   IN  IF << x, y >> \in DOMAIN job THEN job[<< x, y >>]
                       ELSE backgroundPixel(bg, x, y) ] ]

Images == { paintedImage(bg, job) : bg \in Backgrounds, job \in PaintJobs }

(***************************************************************************)
(* Specification of analyzeSkinTone applied to a drawn, decoded image.     *)
(***************************************************************************)
InitSampler ==
    /\ pc = "loaded"
    /\ imageData \in Images
    /\ sampledColor = None
    /\ resolved = None
    /\ IdleDistance
    /\ IdleMatch
    /\ IdleTone
    /\ IdleAfterSampler

\* img.onload: sample, classify and resolve the promise
ImgOnload ==
    /\ pc = "loaded"
    /\ sampledColor' = getAverageColor(extractSkinPixels(imageData))
    /\ resolved' = analysisOf(imageData)
    /\ pc' = "resolved"
    /\ UNCHANGED << imageData, distanceVars, matchVars, toneVars,
                    afterSamplerVars >>

NextSampler == ImgOnload

SpecSampler == InitSampler /\ [][NextSampler]_vars

(***************************************************************************)
(* Claims about the sampler (checked under SpecSampler).                   *)
(***************************************************************************)
\* the pixel positions of the inner rectangle: 20% to 80% of width and height
InnerRectangle(img) ==
    { pos \in (0..(img.width - 1)) \X (0..(img.height - 1)) :
        /\ 5 * pos[1] >= img.width /\ 5 * (pos[1] + 1) <= 4 * img.width
        /\ 5 * pos[2] >= img.height /\ 5 * (pos[2] + 1) <= 4 * img.height }

\* the skin heuristic as the specification words it
SkinHeuristic(px) ==
    LET r == px[1]
        g == px[2]
        b == px[3]
        hi == CHOOSE v \in { r, g, b } : \A w \in { r, g, b } : v >= w
        lo == CHOOSE v \in { r, g, b } : \A w \in { r, g, b } : v <= w
    IN  /\ r > 95 /\ g > 40 /\ b > 20
        /\ hi - lo > 15
        /\ (r - g > 15 \/ g - r > 15)
        /\ r > g /\ r > b

SkinPositions(img) ==
    { pos \in InnerRectangle(img) : SkinHeuristic(pixelAt(img, pos[1], pos[2])) }

RECURSIVE SumChannel(_, _, _)
SumChannel(img, S, ch) ==
    IF S = { } THEN 0
    ELSE LET pos == CHOOSE q \in S : TRUE
         IN  pixelAt(img, pos[1], pos[2])[ch] + SumChannel(img, S \ { pos }, ch)

\* k is the arithmetic mean s / n rounded to the nearest integer, halves up
IsRoundedMean(k, s, n) == 2 * n * k - n <= 2 * s /\ 2 * s < 2 * n * k + n

\* C11: when no pixel of the sampled region satisfies the skin heuristic, the
\* sampler returns exactly (194,154,108) and the analysis still completes
\* with a full profile.
C11_FallbackColourAndFullProfile ==
    (pc = "resolved" /\ SkinPositions(imageData) = { }) =>
        /\ sampledColor = [ r |-> 194, g |-> 154, b |-> 108 ]
        /\ resolved.skinHex = << "#", "c", "2", "9", "a", "6", "c" >>
        /\ resolved.undertone = "warm"
        /\ resolved.season = "spring"
        /\ resolved.recommendedColors = SpringRecommended
        /\ Len(resolved.recommendedColors) = 42
        /\ resolved.avoidColors = << >>

\* a solid pure-blue image was analysed
C11_Witness ==
    /\ pc = "resolved"
    /\ \A i \in DOMAIN imageData.data : imageData.data[i] = BluePixel
    /\ sampledColor = [ r |-> 194, g |-> 154, b |-> 108 ]

\* C12: when at least one sampled pixel is skin-like, each channel of the
\* sampler's output is the rounded arithmetic mean of that channel over
\* exactly the pixels of the sampled region that satisfy the heuristic.
C12_MeanOverSkinPixelsOfRegion ==
    (pc = "resolved" /\ SkinPositions(imageData) # { }) =>
        LET S == SkinPositions(imageData)
            n == Cardinality(S)
        IN  /\ IsRoundedMean(sampledColor.r, SumChannel(imageData, S, 1), n)
            /\ IsRoundedMean(sampledColor.g, SumChannel(imageData, S, 2), n)
            /\ IsRoundedMean(sampledColor.b, SumChannel(imageData, S, 3), n)

\* a region of two skin colours and one other pixel gave a mean that is
\* neither colour and whose green value is a rounded-up half (1260 / 8)
C12_Witness ==
    /\ pc = "resolved"
    /\ Cardinality(SkinPositions(imageData)) = 8
    /\ SumChannel(imageData, SkinPositions(imageData), 2) = 1260
    /\ sampledColor.g = 158

\* the image that agrees with img on the inner rectangle and holds px
\* everywhere else
Repainted(img, px) ==
    [ img EXCEPT !.data =
        [ i \in DOMAIN img.data |->
            IF << (i - 1) % img.width, (i - 1) \div img.width >>
                   \in InnerRectangle(img)
            THEN img.data[i] ELSE px ] ]

\* C13: only pixels inside the inner rectangle influence the result: an
\* image that agrees with the analysed one on every pixel of that rectangle
\* yields the same skin colour and the same profile.
C13_OnlyInnerRectangleMatters ==
    pc = "resolved" =>
        \A px \in PaintPixels \cup { SkinPixelA } :
            /\ getAverageColor(extractSkinPixels(Repainted(imageData, px)))
                   = sampledColor
            /\ analysisOf(Repainted(imageData, px)) = resolved

\* an image whose only skin-like pixel lies outside the rectangle was analysed
C13_Witness ==
    /\ pc = "resolved"
    /\ SkinPositions(imageData) = { }
    /\ \E i \in DOMAIN imageData.data : imageData.data[i] = MinSkinPixel
    /\ sampledColor = [ r |-> 194, g |-> 154, b |-> 108 ]

(***************************************************************************)
(* The colour-name resolver of the swipe page (src/app/swipe/page.tsx):    *)
(* getProductColorHex reads a property of an object literal.               *)
(***************************************************************************)
LowerCaseLetters ==
    << "a", "b", "c", "d", "e", "f", "g", "h", "i", "j", "k", "l", "m", "n", "o", "p", "q", "r", "s", "t", "u", "v", "w", "x", "y", "z" >>
UpperCaseLetters ==
    << "A", "B", "C", "D", "E", "F", "G", "H", "I", "J", "K", "L", "M", "N", "O", "P", "Q", "R", "S", "T", "U", "V", "W", "X", "Y", "Z" >>

\* String.prototype.toLowerCase
toLowerCase(s) ==
    [i \in 1..Len(s) |->
        IF \E j \in 1..26 : UpperCaseLetters[j] = s[i]
        THEN LowerCaseLetters[CHOOSE j \in 1..26 : UpperCaseLetters[j] = s[i]]
        ELSE s[i]]

\* the white space String.prototype.trim removes (the part of it used here)
WhiteSpace == { " ", "\t", "\n" }

RECURSIVE trimStart(_)
trimStart(s) ==
    IF s # << >> /\ Head(s) \in WhiteSpace THEN trimStart(Tail(s)) ELSE s

RECURSIVE trimEnd(_)
trimEnd(s) ==
    IF s # << >> /\ s[Len(s)] \in WhiteSpace
    THEN trimEnd(SubSeq(s, 1, Len(s) - 1))
    ELSE s

\* String.prototype.trim
trim(s) == trimEnd(trimStart(s))

\* the entries of colorMap, in the order of the object literal: << name, hex >>
colorMap ==
    <<
       << << "b", "l", "a", "c", "k" >>,
          << "#", "0", "0", "0", "0", "0", "0" >> >>,
       << << "w", "h", "i", "t", "e" >>,
          << "#", "F", "F", "F", "F", "F", "F" >> >>,
       << << "r", "e", "d" >>,
          << "#", "F", "F", "0", "0", "0", "0" >> >>,
       << << "b", "l", "u", "e" >>,
          << "#", "0", "0", "0", "0", "F", "F" >> >>,
       << << "g", "r", "e", "e", "n" >>,
          << "#", "0", "0", "8", "0", "0", "0" >> >>,
       << << "y", "e", "l", "l", "o", "w" >>,
          << "#", "F", "F", "F", "F", "0", "0" >> >>,
       << << "p", "i", "n", "k" >>,
          << "#", "F", "F", "C", "0", "C", "B" >> >>,
       << << "p", "u", "r", "p", "l", "e" >>,
          << "#", "8", "0", "0", "0", "8", "0" >> >>,
       << << "o", "r", "a", "n", "g", "e" >>,
          << "#", "F", "F", "A", "5", "0", "0" >> >>,
       << << "b", "r", "o", "w", "n" >>,
          << "#", "A", "5", "2", "A", "2", "A" >> >>,
       << << "g", "r", "a", "y" >>,
          << "#", "8", "0", "8", "0", "8", "0" >> >>,
       << << "g", "r", "e", "y" >>,
          << "#", "8", "0", "8", "0", "8", "0" >> >>,
       << << "n", "a", "v", "y" >>,
          << "#", "0", "0", "0", "0", "8", "0" >> >>,
       << << "b", "e", "i", "g", "e" >>,
          << "#", "F", "5", "F", "5", "D", "C" >> >>,
       << << "c", "r", "e", "a", "m" >>,
          << "#", "F", "F", "F", "D", "D", "0" >> >>,
       << << "t", "a", "n" >>,
          << "#", "D", "2", "B", "4", "8", "C" >> >>,
       << << "g", "o", "l", "d" >>,
          << "#", "F", "F", "D", "7", "0", "0" >> >>,
       << << "s", "i", "l", "v", "e", "r" >>,
          << "#", "C", "0", "C", "0", "C", "0" >> >>,
       << << "b", "u", "r", "g", "u", "n", "d", "y" >>,
          << "#", "8", "0", "0", "0", "2", "0" >> >>,
       << << "m", "a", "r", "o", "o", "n" >>,
          << "#", "8", "0", "0", "0", "0", "0" >> >>,
       << << "o", "l", "i", "v", "e" >>,
          << "#", "8", "0", "8", "0", "0", "0" >> >>,
       << << "t", "e", "a", "l" >>,
          << "#", "0", "0", "8", "0", "8", "0" >> >>,
       << << "t", "u", "r", "q", "u", "o", "i", "s", "e" >>,
          << "#", "4", "0", "E", "0", "D", "0" >> >>,
       << << "c", "o", "r", "a", "l" >>,
          << "#", "F", "F", "7", "F", "5", "0" >> >>,
       << << "s", "a", "l", "m", "o", "n" >>,
          << "#", "F", "A", "8", "0", "7", "2" >> >>,
       << << "k", "h", "a", "k", "i" >>,
          << "#", "F", "0", "E", "6", "8", "C" >> >>,
       << << "m", "i", "n", "t" >>,
          << "#", "9", "8", "F", "B", "9", "8" >> >>,
       << << "l", "a", "v", "e", "n", "d", "e", "r" >>,
          << "#", "E", "6", "E", "6", "F", "A" >> >>,
       << << "i", "v", "o", "r", "y" >>,
          << "#", "F", "F", "F", "F", "F", "0" >> >>,
       << << "c", "r", "i", "m", "s", "o", "n" >>,
          << "#", "D", "C", "1", "4", "3", "C" >> >>,
       << << "s", "c", "a", "r", "l", "e", "t" >>,
          << "#", "F", "F", "2", "4", "0", "0" >> >>,
       << << "r", "o", "s", "e" >>,
          << "#", "F", "F", "6", "6", "C", "C" >> >>,
       << << "f", "u", "c", "h", "s", "i", "a" >>,
          << "#", "F", "F", "0", "0", "F", "F" >> >>,
       << << "m", "a", "g", "e", "n", "t", "a" >>,
          << "#", "F", "F", "0", "0", "F", "F" >> >>,
       << << "v", "i", "o", "l", "e", "t" >>,
          << "#", "8", "A", "2", "B", "E", "2" >> >>,
       << << "i", "n", "d", "i", "g", "o" >>,
          << "#", "4", "B", "0", "0", "8", "2" >> >>,
       << << "c", "y", "a", "n" >>,
          << "#", "0", "0", "F", "F", "F", "F" >> >>,
       << << "a", "q", "u", "a" >>,
          << "#", "0", "0", "F", "F", "F", "F" >> >>,
       << << "l", "i", "m", "e" >>,
          << "#", "0", "0", "F", "F", "0", "0" >> >>,
       << << "f", "o", "r", "e", "s", "t" >>,
          << "#", "2", "2", "8", "B", "2", "2" >> >>,
       << << "e", "m", "e", "r", "a", "l", "d" >>,
          << "#", "5", "0", "C", "8", "7", "8" >> >>,
       << << "j", "a", "d", "e" >>,
          << "#", "0", "0", "A", "8", "6", "B" >> >>,
       << << "c", "h", "a", "r", "t", "r", "e", "u", "s", "e" >>,
          << "#", "7", "F", "F", "F", "0", "0" >> >>,
       << << "a", "m", "b", "e", "r" >>,
          << "#", "F", "F", "B", "F", "0", "0" >> >>,
       << << "b", "r", "o", "n", "z", "e" >>,
          << "#", "C", "D", "7", "F", "3", "2" >> >>,
       << << "c", "o", "p", "p", "e", "r" >>,
          << "#", "B", "8", "7", "3", "3", "3" >> >>,
       << << "r", "u", "s", "t" >>,
          << "#", "B", "7", "4", "1", "0", "E" >> >>,
       << << "m", "a", "h", "o", "g", "a", "n", "y" >>,
          << "#", "C", "0", "4", "0", "0", "0" >> >>,
       << << "c", "h", "e", "s", "t", "n", "u", "t" >>,
          << "#", "9", "5", "4", "5", "3", "5" >> >>,
       << << "c", "o", "f", "f", "e", "e" >>,
          << "#", "6", "F", "4", "E", "3", "7" >> >>,
       << << "c", "h", "o", "c", "o", "l", "a", "t", "e" >>,
          << "#", "D", "2", "6", "9", "1", "E" >> >>,
       << << "c", "a", "m", "e", "l" >>,
          << "#", "C", "1", "9", "A", "6", "B" >> >>,
       << << "s", "a", "n", "d" >>,
          << "#", "C", "2", "B", "2", "8", "0" >> >>,
       << << "w", "h", "e", "a", "t" >>,
          << "#", "F", "5", "D", "E", "B", "3" >> >>,
       << << "p", "e", "a", "r", "l" >>,
          << "#", "F", "0", "E", "A", "D", "6" >> >>,
       << << "c", "h", "a", "m", "p", "a", "g", "n", "e" >>,
          << "#", "F", "7", "E", "7", "C", "E" >> >>,
       << << "n", "u", "d", "e" >>,
          << "#", "E", "3", "B", "C", "9", "A" >> >>,
       << << "b", "l", "u", "s", "h" >>,
          << "#", "D", "E", "5", "D", "8", "3" >> >>,
       << << "m", "a", "u", "v", "e" >>,
          << "#", "E", "0", "B", "0", "F", "F" >> >>,
       << << "p", "l", "u", "m" >>,
          << "#", "D", "D", "A", "0", "D", "D" >> >>,
       << << "l", "i", "l", "a", "c" >>,
          << "#", "C", "8", "A", "2", "C", "8" >> >>,
       << << "p", "e", "r", "i", "w", "i", "n", "k", "l", "e" >>,
          << "#", "C", "C", "C", "C", "F", "F" >> >>,
       << << "s", "l", "a", "t", "e" >>,
          << "#", "7", "0", "8", "0", "9", "0" >> >>,
       << << "c", "h", "a", "r", "c", "o", "a", "l" >>,
          << "#", "3", "6", "4", "5", "4", "F" >> >>,
       << << "s", "t", "e", "e", "l" >>,
          << "#", "4", "6", "8", "2", "B", "4" >> >>,
       << << "c", "o", "b", "a", "l", "t" >>,
          << "#", "0", "0", "4", "7", "A", "B" >> >>,
       << << "s", "a", "p", "p", "h", "i", "r", "e" >>,
          << "#", "0", "F", "5", "2", "B", "A" >> >>,
       << << "r", "o", "y", "a", "l" >>,
          << "#", "4", "1", "6", "9", "E", "1" >> >>,
       << << "m", "i", "d", "n", "i", "g", "h", "t" >>,
          << "#", "1", "9", "1", "9", "7", "0" >> >>,
       << << "d", "e", "n", "i", "m" >>,
          << "#", "1", "5", "6", "0", "B", "D" >> >>,
       << << "p", "o", "w", "d", "e", "r" >>,
          << "#", "B", "0", "E", "0", "E", "6" >> >>,
       << << "s", "k", "y" >>,
          << "#", "8", "7", "C", "E", "E", "B" >> >>,
       << << "i", "c", "e" >>,
          << "#", "F", "0", "F", "8", "F", "F" >> >>,
       << << "m", "i", "n", "t", " ", "g", "r", "e", "e", "n" >>,
          << "#", "9", "8", "F", "B", "9", "8" >> >>,
       << << "s", "e", "a", " ", "g", "r", "e", "e", "n" >>,
          << "#", "2", "E", "8", "B", "5", "7" >> >>,
       << << "p", "i", "n", "e" >>,
          << "#", "0", "1", "7", "9", "6", "F" >> >>,
       << << "s", "a", "g", "e" >>,
          << "#", "9", "C", "A", "F", "8", "8" >> >>,
       << << "m", "o", "s", "s" >>,
          << "#", "8", "A", "9", "A", "5", "B" >> >>,
       << << "h", "u", "n", "t", "e", "r" >>,
          << "#", "3", "5", "5", "E", "3", "B" >> >>
    >>

\* the property names an object literal inherits from Object.prototype
ObjectPrototypeNames ==
    { << "c", "o", "n", "s", "t", "r", "u", "c", "t", "o", "r" >>,
      << "h", "a", "s", "O", "w", "n", "P", "r", "o", "p", "e", "r", "t", "y" >>,
      << "i", "s", "P", "r", "o", "t", "o", "t", "y", "p", "e", "O", "f" >>,
      << "p", "r", "o", "p", "e", "r", "t", "y", "I", "s", "E", "n", "u", "m", "e", "r", "a", "b", "l", "e" >>,
      << "t", "o", "L", "o", "c", "a", "l", "e", "S", "t", "r", "i", "n", "g" >>,
      << "t", "o", "S", "t", "r", "i", "n", "g" >>,
      << "v", "a", "l", "u", "e", "O", "f" >>,
      << "_", "_", "p", "r", "o", "t", "o", "_", "_" >>,
      << "_", "_", "d", "e", "f", "i", "n", "e", "G", "e", "t", "t", "e", "r", "_", "_" >>,
      << "_", "_", "d", "e", "f", "i", "n", "e", "S", "e", "t", "t", "e", "r", "_", "_" >>,
      << "_", "_", "l", "o", "o", "k", "u", "p", "G", "e", "t", "t", "e", "r", "_", "_" >>,
      << "_", "_", "l", "o", "o", "k", "u", "p", "S", "e", "t", "t", "e", "r", "_", "_" >> }

\* the value a property read yields when neither the object nor its prototype
\* has the property
undefined == << "undefined" >>

\* an inherited member (a function, or the prototype object for __proto__):
\* a value that is not a string
inheritedMember(name) == << "Object.prototype" >> \o name

hasOwn(name) == \E i \in 1..Len(colorMap) : colorMap[i][1] = name

\* colorMap[name]: own property first, then the prototype chain
propertyOf(name) ==
    IF hasOwn(name)
    THEN colorMap[CHOOSE i \in 1..Len(colorMap) : colorMap[i][1] = name][2]
    ELSE IF name \in ObjectPrototypeNames
         THEN inheritedMember(name)
         ELSE undefined

\* the operands || treats as false (of the values a property read yields here)
falsy(v) == v = undefined \/ v = << >>

getProductColorHex(name) ==
    LET normalizedColor == trim(toLowerCase(name))
        entry == propertyOf(normalizedColor)
    IN  IF falsy(entry) THEN DefaultPurple ELSE entry

UltravioletMist == << "u", "l", "t", "r", "a", "v", "i", "o", "l", "e", "t", "-", "m", "i", "s", "t" >>
ConstructorName == << "c", "o", "n", "s", "t", "r", "u", "c", "t", "o", "r" >>
ConstructorPadded == << " ", "C", "o", "n", "s", "t", "r", "u", "c", "t", "o", "r", "\t" >>
ProtoName == << "_", "_", "p", "r", "o", "t", "o", "_", "_" >>
ToStringName == << "t", "o", "S", "t", "r", "i", "n", "g" >>
ValueOfName == << "v", "a", "l", "u", "e", "O", "f" >>
BlankName == << " ", " ", " " >>
MintDoubleSpace == << "m", "i", "n", "t", " ", " ", "g", "r", "e", "e", "n" >>
BurgundyShouted == << " ", " ", "B", "U", "R", "G", "U", "N", "D", "Y", " " >>
SeaGreenMixed == << "\t", "S", "e", "a", " ", "G", "r", "e", "e", "n", "\n" >>
BurgundyName == << "b", "u", "r", "g", "u", "n", "d", "y" >>

\* a name in capitals, as a catalogue may spell it
capitals(s) ==
    [i \in 1..Len(s) |->
        IF \E j \in 1..26 : LowerCaseLetters[j] = s[i]
        THEN UpperCaseLetters[CHOOSE j \in 1..26 : LowerCaseLetters[j] = s[i]]
        ELSE s[i]]

TableNames == { colorMap[i][1] : i \in 1..Len(colorMap) }

ColorNames ==
    TableNames
    \cup { capitals(n) : n \in TableNames }
    \cup { << " " >> \o capitals(n) \o << "\t", " " >> : n \in TableNames }
    \cup { UltravioletMist, ConstructorName, ConstructorPadded, ProtoName,
           ToStringName, ValueOfName, BlankName, EmptyString, MintDoubleSpace,
           BurgundyShouted, SeaGreenMixed }

InitResolver ==
    /\ pc = "called"
    /\ colorName \in ColorNames
    /\ productColorHex = None
    /\ IdleDistance
    /\ IdleMatch
    /\ IdleTone
    /\ IdleSampler
    /\ IdleAfterResolver

GetProductColorHex ==
    /\ pc = "called"
    /\ productColorHex' = getProductColorHex(colorName)
    /\ pc' = "returned"
    /\ UNCHANGED << colorName, distanceVars, matchVars, toneVars, samplerVars,
                    afterResolverVars >>

NextResolver == GetProductColorHex

SpecResolver == InitResolver /\ [][NextResolver]_vars

\* the table's entry for a name, by the name itself
TableEntry(n) == colorMap[CHOOSE i \in 1..Len(colorMap) : colorMap[i][1] = n][2]

\* C14: for every colour name the resolver returns the table's entry for the
\* lower-cased, trimmed name when the table has one, and #6B46C1 for every
\* other name.
C14_TableEntryOrDefault ==
    pc = "returned" =>
        LET n == trim(toLowerCase(colorName))
        IN  productColorHex = IF n \in TableNames THEN TableEntry(n)
                              ELSE DefaultPurple

\* C14: the name "constructor" is not in the table and resolves to something
\* other than the default
C14_ConstructorNotDefault ==
    /\ pc = "returned"
    /\ colorName = ConstructorName
    /\ ConstructorName \notin TableNames
    /\ productColorHex # DefaultPurple

\* C14: names of the table, in any case and with surrounding white space,
\* resolve to the table's entry; "burgundy" gives #800020
C14_TableNamesResolve ==
    pc = "returned" =>
        /\ trim(toLowerCase(colorName)) \in TableNames =>
               productColorHex = TableEntry(trim(toLowerCase(colorName)))
        /\ colorName \in { BurgundyName, BurgundyShouted } =>
               productColorHex = Burgundy
        /\ colorName = UltravioletMist => productColorHex = DefaultPurple

(***************************************************************************)
(* The shared skin-tone storage (src/lib/skin-tone-storage.ts), the home   *)
(* page's capture flow (src/unnamed/part_000) and the swipe page           *)
(* (src/app/swipe/page.tsx).                                               *)
(*                                                                         *)
(* A JSON text is a sequence of tokens: punctuation [t |-> c] and string   *)
(* literals [t |-> "string", v |-> s].                                     *)
(***************************************************************************)
Punct(c) == [ t |-> c ]
Str(s) == [ t |-> "string", v |-> s ]

RECURSIVE joinElements(_)
joinElements(a) ==
    IF a = << >> THEN << >>
    ELSE IF Len(a) = 1 THEN << Str(a[1]) >>
    ELSE << Str(a[1]), Punct(",") >> \o joinElements(Tail(a))

arrayText(a) == << Punct("[") >> \o joinElements(a) \o << Punct("]") >>

\* JSON.stringify of a SkinToneAnalysis without the avoidColors member
JSONstringifyDropsAvoid(a) ==
    << Punct("{"), Str("skinHex"), Punct(":"), Str(a.skinHex), Punct(","),
       Str("undertone"), Punct(":"), Str(a.undertone), Punct(","),
       Str("season"), Punct(":"), Str(a.season), Punct(","),
       Str("recommendedColors"), Punct(":") >>
    \o arrayText(a.recommendedColors) \o << Punct("}") >>

\* JSON.stringify of a SkinToneAnalysis: its members in insertion order
JSONstringify(a) ==
    << Punct("{"), Str("skinHex"), Punct(":"), Str(a.skinHex), Punct(","),
       Str("undertone"), Punct(":"), Str(a.undertone), Punct(","),
       Str("season"), Punct(":"), Str(a.season), Punct(","),
       Str("recommendedColors"), Punct(":") >>
    \o arrayText(a.recommendedColors)
    \o << Punct(","), Str("avoidColors"), Punct(":") >>
    \o arrayText(a.avoidColors) \o << Punct("}") >>

SyntaxError == [ error |-> "SyntaxError" ]

\* the elements of an array of strings from position i on
RECURSIVE parseElements(_, _, _)
parseElements(text, i, acc) ==
    IF i + 1 > Len(text) \/ text[i].t # "string" THEN SyntaxError
    ELSE IF text[i + 1].t = ","
         THEN parseElements(text, i + 2, Append(acc, text[i].v))
    ELSE IF text[i + 1].t = "]"
         THEN [ value |-> Append(acc, text[i].v), next |-> i + 2 ]
    ELSE SyntaxError

\* a string or an array of strings at position i
parseValue(text, i) ==
    IF i > Len(text) THEN SyntaxError
    ELSE IF text[i].t = "string" THEN [ value |-> text[i].v, next |-> i + 1 ]
    ELSE IF text[i].t = "[" /\ i + 1 <= Len(text)
         THEN IF text[i + 1].t = "]"
              THEN [ value |-> << >>, next |-> i + 2 ]
              ELSE parseElements(text, i + 1, << >>)
    ELSE SyntaxError

\* the members of an object from position i on; a repeated name keeps the
\* later value
RECURSIVE parseMembers(_, _, _)
parseMembers(text, i, acc) ==
    IF i + 2 > Len(text) \/ text[i].t # "string" \/ text[i + 1].t # ":"
    THEN SyntaxError
    ELSE LET r == parseValue(text, i + 2)
         IN  IF r = SyntaxError \/ r.next > Len(text) THEN SyntaxError
             ELSE IF text[r.next].t = ","
                  THEN parseMembers(text, r.next + 1,
                                    (text[i].v :> r.value) @@ acc)
             ELSE IF text[r.next].t = "}"
                  THEN [ value |-> (text[i].v :> r.value) @@ acc,
                         next |-> r.next + 1 ]
             ELSE SyntaxError

\* JSON.parse of an object text; SyntaxError stands for the exception
JSONparse(text) ==
    IF Len(text) < 2 \/ text[1].t # "{" THEN SyntaxError
    ELSE LET r == parseMembers(text, 2, << >>)
         IN  IF r = SyntaxError \/ r.next # Len(text) + 1 THEN SyntaxError
             ELSE r.value

\* localStorage.getItem, stored ? JSON.parse(stored) : null, and the catch
getStoredSkinTone(ls) ==
    IF ls = << >> THEN null
    ELSE LET stored == ls[1]
         IN  IF stored = << >> THEN null
             ELSE IF JSONparse(stored) = SyntaxError THEN null
             ELSE JSONparse(stored)

\* The part of the browser state a storage operation works on:
\* [ localStorage, dispatched, swipePage ].
setItem(w, text) == [ w EXCEPT !.localStorage = << text >> ]
removeItem(w) == [ w EXCEPT !.localStorage = << >> ]

\* window.dispatchEvent(new CustomEvent('skinToneUpdated', { detail })):
\* the listeners run before it returns.  The swipe page's listener sets its
\* state; the log keeps, with the detail, what getStoredSkinTone returns
\* while the listeners run.
dispatchEvent(w, detail) ==
    [ w EXCEPT
        !.dispatched = Append(@, [ detail |-> detail,
                                   stored |-> getStoredSkinTone(w.localStorage) ]),
        !.swipePage = IF @.mounted THEN [ @ EXCEPT !.skinToneAnalysis = detail ]
                      ELSE @ ]

\* analyzeAndStoreSkinTone with the event dispatched before the item is set
storeSkinToneEventFirst(w, analysis) ==
    setItem(dispatchEvent(w, analysis), JSONstringify(analysis))

\* analyzeAndStoreSkinTone after the await: setItem, then dispatchEvent
storeSkinTone(w, analysis) ==
    dispatchEvent(setItem(w, JSONstringify(analysis)), analysis)

\* clearStoredSkinTone: removeItem, then dispatchEvent
clearStoredSkinTone(w) == dispatchEvent(removeItem(w), null)

(***************************************************************************)
(* The application: captures on the home page, the storage operations,     *)
(* navigation between the home page and the swipe page, voice events.      *)
(***************************************************************************)
\* how many captures, and how many clears, a behaviour holds at most
MaxCaptures == 2
MaxClears == 1

\* what the video shows when the capture button is pressed; "empty" is a
\* video without dimensions yet (videoWidth = 0), whose canvas has no pixel
\* and whose data URL does not decode
DecodableFrames == { "blue", "skin" }
Frames == DecodableFrames \cup { "empty" }

frameImage(f) == paintedImage(f, [ pos \in { } |-> BluePixel ])

\* the revisions of the home page: in the first the capture button is
\* disabled while isAnalyzing, in the second only while the camera is off
HomeRevisions == { 1, 2 }

swipePageUnmounted ==
    [ mounted |-> FALSE, skinToneAnalysis |-> null, skinToneMatching |-> FALSE ]

browser ==
    [ localStorage |-> localStorage, dispatched |-> dispatched,
      swipePage |-> swipePage ]

pendingFlows == { i \in 1..Len(flows) : flows[i].stage = "pending" }

clearsDone == Cardinality({ i \in 1..Len(operations) : operations[i].op = "clear" })

InitApp ==
    /\ pc = "running"
    /\ localStorage = << >>
    /\ dispatched = << >>
    /\ operations = << >>
    /\ flows = << >>
    /\ isAnalyzing = FALSE
    /\ homeRevision \in HomeRevisions
    /\ swipePage = swipePageUnmounted
    /\ IdleDistance
    /\ IdleMatch
    /\ IdleTone
    /\ IdleSampler
    /\ IdleResolver
    /\ IdleAfterApp

\* the capture button's disabled attribute
captureDisabled == homeRevision = 1 /\ isAnalyzing

\* capturePhoto up to its await: the flag is set and analyzeSkinTone has
\* created the Image and assigned its src
CapturePhoto(f) ==
    /\ ~swipePage.mounted
    /\ ~captureDisabled
    /\ Len(flows) < MaxCaptures
    /\ flows' = Append(flows, [ frame |-> f, stage |-> "pending",
                                orphaned |-> FALSE ])
    /\ isAnalyzing' = TRUE
    /\ UNCHANGED << pc, localStorage, dispatched, operations, homeRevision,
                    swipePage, distanceVars, matchVars, toneVars, samplerVars,
                    resolverVars, afterAppVars >>

\* the load event of flow i's image fires: the flow awaits it and the image
\* decodes.  An image that does not decode fires an error event, for which
\* analyzeSkinTone registers no handler.
loadEventFires(i) == i \in pendingFlows /\ flows[i].frame \in DecodableFrames

\* img.onload of flow i and the continuations it releases: the promise
\* resolves, analyzeAndStoreSkinTone stores and dispatches, capturePhoto
\* reaches its finally.
FlowOnload(i) ==
    /\ loadEventFires(i)
    /\ LET analysis == analysisOf(frameImage(flows[i].frame))
           w == storeSkinTone(browser, analysis)
       IN  /\ localStorage' = w.localStorage
           /\ dispatched' = w.dispatched
           /\ swipePage' = w.swipePage
           /\ operations' = Append(operations,
                                   [ op |-> "store", profile |-> analysis ])
    /\ flows' = [ flows EXCEPT ![i].stage = "settled" ]
    /\ isAnalyzing' = IF flows[i].orphaned THEN isAnalyzing ELSE FALSE
    /\ UNCHANGED << pc, homeRevision, distanceVars, matchVars, toneVars,
                    samplerVars, resolverVars, afterAppVars >>

ClearStoredSkinTone ==
    /\ clearsDone < MaxClears
    /\ LET w == clearStoredSkinTone(browser)
       IN  /\ localStorage' = w.localStorage
           /\ dispatched' = w.dispatched
           /\ swipePage' = w.swipePage
    /\ operations' = Append(operations, [ op |-> "clear", profile |-> null ])
    /\ UNCHANGED << pc, flows, isAnalyzing, homeRevision, distanceVars,
                    matchVars, toneVars, samplerVars, resolverVars, afterAppVars >>

\* navigation to the swipe page: the home page unmounts (its flag goes with
\* it, flows in flight keep running), the swipe page renders, registers its
\* listener and its mount effect reads the storage
OpenSwipePage ==
    /\ ~swipePage.mounted
    /\ swipePage' =
          [ mounted |-> TRUE,
            skinToneAnalysis |-> getStoredSkinTone(localStorage),
            skinToneMatching |-> FALSE ]
    /\ flows' = [ i \in 1..Len(flows) |-> [ flows[i] EXCEPT !.orphaned = TRUE ] ]
    /\ isAnalyzing' = FALSE
    /\ UNCHANGED << pc, localStorage, dispatched, operations, homeRevision,
                    distanceVars, matchVars, toneVars, samplerVars,
                    resolverVars, afterAppVars >>

\* navigation back: the swipe page unmounts, a new home page mounts
OpenHomePage ==
    /\ swipePage.mounted
    /\ swipePage' = swipePageUnmounted
    /\ isAnalyzing' = FALSE
    /\ UNCHANGED << pc, localStorage, dispatched, operations, flows,
                    homeRevision, distanceVars, matchVars, toneVars,
                    samplerVars, resolverVars, afterAppVars >>

\* the detail of a voiceFilterUpdate event as far as the profile goes: the
\* plain event carries filters only, the enhanced one a profile as well
VoiceDetails ==
    { [ enableSkinToneMatching |-> FALSE, skinTone |-> null ] } \cup
    { [ enableSkinToneMatching |-> e, skinTone |-> analysisOf(frameImage(f)) ] :
        e \in BOOLEAN, f \in DecodableFrames }

\* handleVoiceFilterEvent, the part after the filters: an enhanced event
\* replaces the page's profile and switches matching on
HandleVoiceFilterEvent(detail) ==
    /\ swipePage.mounted
    /\ swipePage' =
          IF detail.enableSkinToneMatching /\ detail.skinTone # null
          THEN [ swipePage EXCEPT !.skinToneAnalysis = detail.skinTone,
                                  !.skinToneMatching = TRUE ]
          ELSE swipePage
    /\ UNCHANGED << pc, localStorage, dispatched, operations, flows,
                    isAnalyzing, homeRevision, distanceVars, matchVars,
                    toneVars, samplerVars, resolverVars, afterAppVars >>

NextApp ==
    \/ \E f \in Frames : CapturePhoto(f)
    \/ \E i \in 1..MaxCaptures : FlowOnload(i)
    \/ ClearStoredSkinTone
    \/ OpenSwipePage
    \/ OpenHomePage
    \/ \E detail \in VoiceDetails : HandleVoiceFilterEvent(detail)

SpecApp == InitApp /\ [][NextApp]_vars

lastOperation == operations[Len(operations)]

\* C15: the storage holds at most one item under its key, and after any
\* sequence of completed store and clear operations getStoredSkinTone
\* returns the profile of the last operation if that was a store, and null
\* if it was a clear or if there was no operation; no earlier profile is
\* returned.
C15_LastOperationDecidesStoredProfile ==
    /\ Len(localStorage) <= 1
    /\ getStoredSkinTone(localStorage) =
          IF operations = << >> THEN null ELSE lastOperation.profile

\* C15: a profile was stored, then another one over it
C15_Witness ==
    /\ Len(operations) >= 2
    /\ operations[1].op = "store"
    /\ lastOperation.op = "store"
    /\ lastOperation.profile # operations[1].profile
    /\ getStoredSkinTone(localStorage) = lastOperation.profile

\* C15: a profile was stored and then cleared
C15_WitnessCleared ==
    /\ Len(operations) >= 2
    /\ operations[1].op = "store"
    /\ lastOperation.op = "clear"
    /\ getStoredSkinTone(localStorage) = null

C17_OneEventPerOperationAfterTheChange ==
    /\ Len(dispatched) = Len(operations)
    /\ \A i \in 1..Len(dispatched) :
          /\ dispatched[i].detail = operations[i].profile
          /\ operations[i].op = "clear" <=> dispatched[i].detail = null
          /\ dispatched[i].stored = dispatched[i].detail

\* C17: a store over an earlier profile and a clear have both dispatched
C17_Witness ==
    \E i, j, k \in 1..Len(dispatched) :
        /\ i < j
        /\ operations[i].op = "store"
        /\ operations[j].op = "store"
        /\ operations[j].profile # operations[i].profile
        /\ operations[k].op = "clear"
        /\ dispatched[k].detail = null

\* C18: at most one capture flow is between the start of
\* analyzeAndStoreSkinTone and its completion.
C18_AtMostOneFlowInFlight == Cardinality(pendingFlows) <= 1

\* C19: there is no state in which an analysis stays pending forever: for
\* every pending flow the step that settles its promise, stores the profile
\* and lowers the analysing flag can be taken.
C19_PendingAnalysisCanSettle ==
    \A i \in pendingFlows : loadEventFires(i)

(***************************************************************************)
(* The product filter manager (src/lib/product-filters.ts).  Product ids   *)
(* are sequences of characters; attribute values are strings and numbers.  *)
(***************************************************************************)
\* how many ids a filterProducts call holds at most
MaxIds == 2

ShirtId == << "p", "1" >>
SweaterId == << "p", "2" >>
CardiganId == << "p", "3" >>
UnlistedId == << "p", "9" >>

\* a filters map as the generator writes it (material, occasion and season
\* are "" until they are populated), with two products already populated
SampleFiltersMap ==
    << << ShirtId, [ color |-> "red", price |-> 20, store |-> "t-shirt",
                      inStock |-> 10, material |-> "cotton",
                      occasion |-> "casual", season |-> "summer" ] >>,
       << SweaterId, [ color |-> "blue", price |-> 80, store |-> "sweater",
                        inStock |-> 0, material |-> "", occasion |-> "",
                        season |-> "" ] >>,
       << CardiganId, [ color |-> "red", price |-> 50, store |-> "sweater",
                         inStock |-> 3, material |-> "wool", occasion |-> "",
                         season |-> "winter" ] >> >>

\* this.filtersMap[productId]: an own entry, or a member inherited from
\* Object.prototype (an object without any of the attributes), or undefined
attributesOf(map, productId) ==
    IF \E i \in 1..Len(map) : map[i][1] = productId
    THEN [ kind |-> "own",
           attributes |-> map[CHOOSE i \in 1..Len(map) : map[i][1] = productId][2] ]
    ELSE IF productId \in ObjectPrototypeNames
         THEN [ kind |-> "inherited" ]
         ELSE [ kind |-> "undefined" ]

\* Array.prototype.includes
includes(list, x) == \E i \in 1..Len(list) : list[i] = x

getStockStatus(stock) ==
    IF stock = 0 THEN "outOfStock"
    ELSE IF stock <= 5 THEN "lowStock"
    ELSE "inStock"

\* The tests of the filter callback on a looked-up value p.  A member of an
\* inherited object is undefined: includes(undefined) is false, a comparison
\* with undefined is false, undefined is falsy and getStockStatus(undefined)
\* falls through to 'inStock'.
colorListed(p, list) == p.kind = "own" /\ includes(list, p.attributes.color)
storeListed(p, list) == p.kind = "own" /\ includes(list, p.attributes.store)
priceOutside(p, f) ==
    /\ p.kind = "own"
    /\ (p.attributes.price < f.priceMin \/ p.attributes.price > f.priceMax)
stockStatusOf(p) ==
    IF p.kind = "own" THEN getStockStatus(p.attributes.inStock) ELSE "inStock"
materialOf(p) == IF p.kind = "own" THEN p.attributes.material ELSE ""
occasionOf(p) == IF p.kind = "own" THEN p.attributes.occasion ELSE ""
seasonOf(p) == IF p.kind = "own" THEN p.attributes.season ELSE ""

\* the filter callback: false at the first test that fails
keeps(map, productId, f) ==
    LET p == attributesOf(map, productId)
    IN  /\ p.kind # "undefined"
        /\ ~(Len(f.colors) > 0 /\ ~colorListed(p, f.colors))
        /\ ~priceOutside(p, f)
        /\ ~(Len(f.stores) > 0 /\ ~storeListed(p, f.stores))
        /\ ~(Len(f.stockStatus) > 0 /\ ~includes(f.stockStatus, stockStatusOf(p)))
        /\ ~(Len(f.materials) > 0 /\ materialOf(p) # ""
                /\ ~includes(f.materials, materialOf(p)))
        /\ ~(Len(f.occasions) > 0 /\ occasionOf(p) # ""
                /\ ~includes(f.occasions, occasionOf(p)))
        /\ ~(Len(f.seasons) > 0 /\ seasonOf(p) # ""
                /\ ~includes(f.seasons, seasonOf(p)))

\* productIds.filter(callback): a new array, the arguments are not written
filterProducts(map, ids, f) ==
    SelectSeq(ids, LAMBDA productId : keeps(map, productId, f))

\* the filter options that go with SampleFiltersMap, as far as the default
\* filters read them
SampleFilterOptions == [ priceRange |-> [ min |-> 20, max |-> 80 ] ]

createDefaultActiveFilters(options) ==
    [ colors |-> << >>,
      priceMin |-> options.priceRange.min,
      priceMax |-> options.priceRange.max,
      stores |-> << >>, stockStatus |-> << >>, materials |-> << >>,
      occasions |-> << >>, seasons |-> << >> ]

\* the default filters, with any of the criteria set as the filter panel
\* sets them
ActiveFilterChoices ==
    { [ createDefaultActiveFilters(SampleFilterOptions) EXCEPT
          !.colors = c, !.priceMin = pr[1], !.priceMax = pr[2], !.stores = st,
          !.stockStatus = ss, !.materials = m, !.occasions = o, !.seasons = se ] :
        c \in { << >>, << "red" >> },
        pr \in { << 20, 80 >>, << 30, 60 >> },
        st \in { << >>, << "sweater" >> },
        ss \in { << >>, << "lowStock", "outOfStock" >> },
        m \in { << >>, << "cotton" >> },
        o \in { << >>, << "casual" >> },
        se \in { << >>, << "winter" >> } }

IdPool == { ShirtId, SweaterId, CardiganId, UnlistedId, ConstructorName }

InitFilter ==
    /\ pc = "filtering"
    /\ filtersMap = SampleFiltersMap
    /\ productIds \in SeqsUpTo(IdPool, MaxIds)
    /\ activeFilters \in ActiveFilterChoices
    /\ filteredIds = None
    /\ IdleDistance
    /\ IdleMatch
    /\ IdleTone
    /\ IdleSampler
    /\ IdleResolver
    /\ IdleApp
    /\ IdleAfterFilter

FilterProducts ==
    /\ pc = "filtering"
    /\ filteredIds' = filterProducts(filtersMap, productIds, activeFilters)
    /\ pc' = "filtered"
    /\ UNCHANGED << filtersMap, productIds, activeFilters, distanceVars,
                    matchVars, toneVars, samplerVars, resolverVars, appVars,
                    afterFilterVars >>

NextFilter == FilterProducts

SpecFilter == InitFilter /\ [][NextFilter]_vars

\* the ids the map has an entry for, and their entries
EntryIds == { filtersMap[i][1] : i \in 1..Len(filtersMap) }
EntryOf(id) == filtersMap[CHOOSE i \in 1..Len(filtersMap) : filtersMap[i][1] = id][2]

ListAllows(list, x) == list = << >> \/ x \in Range(list)

StockStatus(stock) ==
    CASE stock = 0 -> "outOfStock"
      [] stock \in 1..5 -> "lowStock"
      [] OTHER -> "inStock"

\* a product's attributes satisfy every criterion of the filters
Satisfies(a, f) ==
    /\ ListAllows(f.colors, a.color)
    /\ f.priceMin <= a.price /\ a.price <= f.priceMax
    /\ ListAllows(f.stores, a.store)
    /\ ListAllows(f.stockStatus, StockStatus(a.inStock))
    /\ ListAllows(f.materials, a.material)
    /\ ListAllows(f.occasions, a.occasion)
    /\ ListAllows(f.seasons, a.season)

\* C20: filterProducts returns exactly the ids, in input order, that have an
\* entry in the filters map whose attributes satisfy every criterion, where
\* an empty list restricts nothing; an id without an entry is excluded.
C20_ExactlyTheSatisfyingEntriesInOrder ==
    pc = "filtered" =>
        filteredIds =
            SelectSeq(productIds,
                      LAMBDA id : id \in EntryIds
                                  /\ Satisfies(EntryOf(id), activeFilters))

\* C20: an id that has no entry in the map is returned
C20_IdWithoutEntryReturned ==
    /\ pc = "filtered"
    /\ \E i \in 1..Len(filteredIds) : filteredIds[i] \notin EntryIds

\* C20: a product whose material is not populated is returned although the
\* material criterion names another material
C20_UnpopulatedMaterialReturned ==
    /\ pc = "filtered"
    /\ activeFilters.materials # << >>
    /\ \E i \in 1..Len(filteredIds) :
          /\ filteredIds[i] \in EntryIds
          /\ EntryOf(filteredIds[i]).material \notin Range(activeFilters.materials)

\* the attributes are populated, or the criterion on them is not set
Populated(a, f) ==
    /\ a.material # "" \/ f.materials = << >>
    /\ a.occasion # "" \/ f.occasions = << >>
    /\ a.season # "" \/ f.seasons = << >>

\* C20: for ids that are no names of Object.prototype and whose entries are
\* populated the statement holds
C20_HoldsForPopulatedEntries ==
    (/\ pc = "filtered"
     /\ \A i \in 1..Len(productIds) :
           /\ productIds[i] \notin ObjectPrototypeNames
           /\ productIds[i] \in EntryIds =>
                 Populated(EntryOf(productIds[i]), activeFilters)) =>
        filteredIds =
            SelectSeq(productIds,
                      LAMBDA id : id \in EntryIds
                                  /\ Satisfies(EntryOf(id), activeFilters))

\* C20: the call writes neither its input array nor the filters map
C20_ArgumentsUnchanged ==
    [][productIds' = productIds /\ filtersMap' = filtersMap]_vars

(***************************************************************************)
(* The multi try-on route (src/app/api/try-on/multi/route.ts).  Messages   *)
(* built from template literals are sequences of their parts.              *)
(***************************************************************************)
maxAttempts == 40

\* how many garments a request holds at most
MaxGarments == 3

\* the order table of the comparator
orderHas(category) == category \in { "bottoms", "tops", "one-pieces", "auto" }
orderValue(category) ==
    CASE category = "bottoms" -> 0
      [] category = "tops" -> 1
      [] category = "one-pieces" -> 2
      [] category = "auto" -> 3

\* order[category] || 3: undefined and 0 are falsy
orderOr3(category) ==
    IF orderHas(category) /\ orderValue(category) # 0
    THEN orderValue(category)
    ELSE 3

compareGarments(a, b) == orderOr3(a.category) - orderOr3(b.category)

\* g put behind the elements of the sorted s that do not compare greater
RECURSIVE insertGarment(_, _)
insertGarment(s, g) ==
    IF s = << >> THEN << g >>
    ELSE IF compareGarments(Head(s), g) > 0 THEN << g >> \o s
    ELSE << Head(s) >> \o insertGarment(Tail(s), g)

\* Array.prototype.sort with the comparator (a stable sort)
RECURSIVE sortGarments(_)
sortGarments(garments) ==
    IF garments = << >> THEN << >>
    ELSE insertGarment(sortGarments(SubSeq(garments, 1, Len(garments) - 1)),
                       garments[Len(garments)])

\* i + 1 in a template literal
ordinal(i) == IF i = 0 THEN "1" ELSE IF i = 1 THEN "2" ELSE "3"

\* NextResponse.json(body, { status })
jsonResponse(body, status) == [ body |-> body, status |-> status ]
errorResponse(message, status) == jsonResponse([ error |-> message ], status)

\* the answer of the outer catch
internalServerError == errorResponse(<< "Internal server error" >>, 500)

\* the body of the request to /v1/run for garment i
runRequest(garment, modelImage, mode) ==
    [ model_image |-> modelImage, garment_image |-> garment.image,
      category |-> garment.category, mode |-> mode ]

\* the fields of the request body, undefined when absent; mode has a default
hasField(body, k) == k \in DOMAIN body
modeOf(body) == IF hasField(body, "mode") THEN body.mode ELSE "balanced"

\* the limit of the second check raised by one
tooManyGarmentsAbove3(items) == Len(items) > 3

\* garments.length > 2
tooManyGarments(items) == Len(items) > 2

\* !model_image || !garments || !Array.isArray(garments) || garments.length === 0
requiredMissing(body) ==
    \/ ~hasField(body, "model_image") \/ body.model_image = ""
    \/ ~hasField(body, "garments")
    \/ body.garments.kind # "array"
    \/ Len(body.garments.items) = 0

(***************************************************************************)
(* waitForCompletion: what one status response does to the loop.           *)
(***************************************************************************)
inProgress(status) == status \in { "starting", "in_queue", "processing" }

returned(value) == [ does |-> "return", value |-> value ]
thrown == [ does |-> "throw" ]
continues == [ does |-> "continue" ]

\* the try block: fetch, the ok test, response.json() and the status tests
tryStatus(response) ==
    IF response.kind # "json" THEN thrown
    ELSE LET data == response.data
         IN  IF data.status = "completed" THEN returned(data)
             ELSE IF data.status = "failed"
                  THEN returned([ error |-> IF data.message = << >>
                                            THEN << "Processing failed" >>
                                            ELSE data.message ])
             ELSE IF inProgress(data.status) THEN continues
             ELSE returned([ error |-> << "Unknown status: ", data.status >> ])

\* a catch clause that lets the exception pass
catchNothing(outcome) == outcome

\* the catch clause: every exception becomes an error value
catchStatus(outcome) ==
    IF outcome.does = "throw"
    THEN returned([ error |-> << "Failed to check processing status" >> ])
    ELSE outcome

\* one turn of the loop
statusTurn(response) == catchStatus(tryStatus(response))

\* the value returned when the loop runs out
processingTimeout == [ error |-> << "Processing timeout" >> ]

\* result.error, falsy for a value without the member
errorOf(result) == IF "error" \in DOMAIN result THEN result.error ELSE << >>

(***************************************************************************)
(* The requests the route receives and the responses of the service.       *)
(***************************************************************************)
GarmentChoices ==
    { [ image |-> "jeans.jpg", category |-> "bottoms" ],
      [ image |-> "tee.jpg", category |-> "tops" ],
      [ image |-> "polo.jpg", category |-> "tops" ],
      [ image |-> "dress.jpg", category |-> "one-pieces" ],
      [ image |-> "scarf.jpg", category |-> "auto" ],
      [ image |-> "boots.jpg", category |-> "shoes" ] }

GarmentsChoices ==
    { [ kind |-> "array", items |-> s ] : s \in SeqsUpTo(GarmentChoices, MaxGarments) }
    \cup { [ kind |-> "object" ] }

ModelImageFields == { << >>, [ model_image |-> "" ], [ model_image |-> "person.jpg" ] }
GarmentsFields == { << >> } \cup { [ garments |-> g ] : g \in GarmentsChoices }
ModeFields == { << >>, [ mode |-> "quality" ] }

\* a body that is an object, a body that is the JSON text null, and a body
\* that request.json() cannot parse
Requests ==
    { [ kind |-> "object", body |-> mi @@ g @@ mo ] :
        mi \in ModelImageFields, g \in GarmentsFields, mo \in ModeFields }
    \cup { [ kind |-> "null" ], [ kind |-> "unparsable" ] }

ApiKeys == { "", "fa-key" }

PredictionIds == { "pred-A", "pred-B" }

\* fetch rejects, or resolves with a response that is not ok, or with one
\* whose body is not JSON, or with JSON data
RunResponses ==
    { [ kind |-> "network" ], [ kind |-> "invalid" ],
      [ kind |-> "http", status |-> 422 ], [ kind |-> "http", status |-> 429 ] }
    \cup { [ kind |-> "json", data |-> [ id |-> id ] ] : id \in PredictionIds }

StatusData ==
    { [ status |-> "completed", output |-> << "tryon.jpg" >> ],
      [ status |-> "completed" ],
      [ status |-> "failed", message |-> << "Pose not detected" >> ],
      [ status |-> "failed", message |-> << >> ],
      [ status |-> "starting" ], [ status |-> "in_queue" ],
      [ status |-> "processing" ], [ status |-> "canceled" ] }

StatusResponses ==
    { [ kind |-> "network" ], [ kind |-> "invalid" ],
      [ kind |-> "http", status |-> 500 ] }
    \cup { [ kind |-> "json", data |-> d ] : d \in StatusData }

\* no status response has arrived yet; waitForCompletion has not returned
NoResponse == [ kind |-> "none" ]
NotReturned == [ pending |-> TRUE ]

InitRoute ==
    /\ pc = "received"
    /\ request \in Requests
    /\ fashnApiKey \in ApiKeys
    /\ sortedGarments = None
    /\ garmentIndex = None
    /\ currentModelImage = None
    /\ predictionId = None
    /\ attempts = None
    /\ statusRequests = 0
    /\ runRequests = << >>
    /\ runResponses = << >>
    /\ lastStatus = NoResponse
    /\ waitResult = NotReturned
    /\ routeAnswer = None
    /\ IdleDistance
    /\ IdleMatch
    /\ IdleTone
    /\ IdleSampler
    /\ IdleResolver
    /\ IdleApp
    /\ IdleFilter
    /\ IdleAfterRoute

outsideRoute ==
    << distanceVars, matchVars, toneVars, samplerVars, resolverVars, appVars,
       filterVars, afterRouteVars >>

\* the route returns a response
Answer(response) ==
    /\ routeAnswer' = response
    /\ pc' = "answered"

\* POST up to its first await on the service: the checks, the sort, and the
\* run request for the first garment
Post ==
    /\ pc = "received"
    /\ IF request.kind # "object"
       THEN /\ Answer(internalServerError)
            /\ UNCHANGED << sortedGarments, garmentIndex, currentModelImage,
                            predictionId, runRequests >>
       ELSE IF requiredMissing(request.body)
       THEN /\ Answer(errorResponse(
                        << "model_image and garments array are required" >>, 400))
            /\ UNCHANGED << sortedGarments, garmentIndex, currentModelImage,
                            predictionId, runRequests >>
       ELSE IF tooManyGarments(request.body.garments.items)
       THEN /\ Answer(errorResponse(
                        << "Maximum 2 garments allowed for multi try-on" >>, 400))
            /\ UNCHANGED << sortedGarments, garmentIndex, currentModelImage,
                            predictionId, runRequests >>
       ELSE IF fashnApiKey = ""
       THEN /\ Answer(errorResponse(<< "FASHN API key not configured" >>, 500))
            /\ UNCHANGED << sortedGarments, garmentIndex, currentModelImage,
                            predictionId, runRequests >>
       ELSE LET sorted == sortGarments(request.body.garments.items)
            IN  /\ sortedGarments' = sorted
                /\ garmentIndex' = 0
                /\ currentModelImage' = request.body.model_image
                /\ predictionId' = ""
                /\ runRequests' = << runRequest(sorted[1], request.body.model_image,
                                                modeOf(request.body)) >>
                /\ pc' = "running"
                /\ UNCHANGED routeAnswer
    /\ UNCHANGED << request, fashnApiKey, attempts, statusRequests, runResponses,
                    lastStatus, waitResult, outsideRoute >>

\* the response to the run request of garment i arrives: the route answers,
\* or (first garment of two) enters waitForCompletion and issues the first
\* status request
RunResponse(response) ==
    /\ pc = "running"
    /\ runResponses' = Append(runResponses, response)
    /\ LET garment == sortedGarments[garmentIndex + 1]
       IN  IF response.kind \in { "network", "invalid" }
           THEN /\ Answer(internalServerError)
                /\ UNCHANGED << predictionId, attempts, statusRequests, waitResult >>
           ELSE IF response.kind = "http"
           THEN /\ Answer(errorResponse(
                            << "Failed to process garment ", ordinal(garmentIndex),
                               ": ", garment.category >>, response.status))
                /\ UNCHANGED << predictionId, attempts, statusRequests, waitResult >>
           ELSE /\ predictionId' = response.data.id
                /\ IF garmentIndex < Len(sortedGarments) - 1
                   THEN /\ attempts' = 0
                        /\ statusRequests' = 1
                        /\ waitResult' = NotReturned
                        /\ pc' = "polling"
                        /\ UNCHANGED routeAnswer
                   ELSE /\ Answer(jsonResponse([ id |-> response.data.id ], 200))
                        /\ UNCHANGED << attempts, statusRequests, waitResult >>
    /\ UNCHANGED << request, fashnApiKey, sortedGarments, garmentIndex,
                    currentModelImage, runRequests, lastStatus, outsideRoute >>

\* the model image of the request, whatever the result
firstOutputStale(result) == "person.jpg"

\* result.output[0]
firstOutput(result) == result.output[1]

\* the route after waitForCompletion returned result: an error answer, or
\* the run request for the next garment on the result's first output
AfterWait(result) ==
    IF errorOf(result) # << >>
    THEN /\ Answer(errorResponse(
                     << "Failed to complete garment ", ordinal(garmentIndex), ": " >>
                     \o errorOf(result), 500))
         /\ UNCHANGED << garmentIndex, currentModelImage, runRequests >>
    ELSE IF "output" \notin DOMAIN result
    THEN /\ Answer(internalServerError)
         /\ UNCHANGED << garmentIndex, currentModelImage, runRequests >>
    ELSE /\ currentModelImage' = firstOutput(result)
         /\ garmentIndex' = garmentIndex + 1
         /\ runRequests' =
               Append(runRequests,
                      runRequest(sortedGarments[garmentIndex + 2], firstOutput(result),
                                 modeOf(request.body)))
         /\ pc' = "running"
         /\ UNCHANGED routeAnswer

\* the response to a status request arrives: one turn of waitForCompletion's
\* loop (with its 3 s pause) and, when the loop ends, the route's next step
StatusResponse(response) ==
    /\ pc = "polling"
    /\ lastStatus' = response
    /\ LET turn == statusTurn(response)
       IN  IF turn.does = "continue"
           THEN /\ attempts' = attempts + 1
                /\ IF attempts + 1 < maxAttempts
                   THEN /\ statusRequests' = statusRequests + 1
                        /\ UNCHANGED << pc, waitResult, routeAnswer, garmentIndex,
                                        currentModelImage, runRequests >>
                   ELSE /\ waitResult' = processingTimeout
                        /\ AfterWait(processingTimeout)
                        /\ UNCHANGED statusRequests
           ELSE IF turn.does = "return"
           THEN /\ waitResult' = turn.value
                /\ AfterWait(turn.value)
                /\ UNCHANGED << attempts, statusRequests >>
           ELSE /\ waitResult' = turn
                /\ Answer(internalServerError)
                /\ UNCHANGED << attempts, statusRequests, garmentIndex,
                                currentModelImage, runRequests >>
    /\ UNCHANGED << request, fashnApiKey, sortedGarments, predictionId,
                    runResponses, outsideRoute >>

NextRoute ==
    \/ Post
    \/ \E response \in RunResponses : RunResponse(response)
    \/ \E response \in StatusResponses : StatusResponse(response)

SpecRoute == InitRoute /\ [][NextRoute]_vars

(***************************************************************************)
(* Claims about the multi try-on route.                                    *)
(***************************************************************************)
\* the categories in the stated processing order
StatedOrder == << "bottoms", "tops", "one-pieces", "auto" >>
statedRank(category) == CHOOSE i \in 1..Len(StatedOrder) : StatedOrder[i] = category
stated(category) == \E i \in 1..Len(StatedOrder) : StatedOrder[i] = category

\* the request holds exactly one tops and one bottoms garment
TopsAndBottoms ==
    /\ Len(sortedGarments) = 2
    /\ { sortedGarments[i].category : i \in 1..2 } = { "tops", "bottoms" }

\* C21: the garments are processed in the order bottoms, tops, one-pieces,
\* auto; for one tops and one bottoms garment in either input order the
\* bottoms garment is submitted first and the tops garment is applied to its
\* result.
C21_BottomsBeforeTops ==
    runRequests # << >> =>
        /\ \A i, j \in 1..Len(sortedGarments) :
              ( /\ i < j
                /\ stated(sortedGarments[i].category)
                /\ stated(sortedGarments[j].category) )
              => statedRank(sortedGarments[i].category)
                     <= statedRank(sortedGarments[j].category)
        /\ TopsAndBottoms =>
              /\ runRequests[1].category = "bottoms"
              /\ Len(runRequests) = 2 =>
                    /\ runRequests[2].category = "tops"
                    /\ runRequests[2].model_image = lastStatus.data.output[1]

\* the tops garment was submitted first and the bottoms garment applied to
\* its result
C21_TopsSubmittedFirst ==
    /\ runRequests # << >>
    /\ TopsAndBottoms
    /\ Len(runRequests) = 2
    /\ runRequests[1].category = "tops"
    /\ runRequests[2].category = "bottoms"
    /\ request.body.garments.items[1].category = "bottoms"

\* what the sort does keep: tops before one-pieces before everything else
C21_TopsOnePiecesRest ==
    runRequests # << >> =>
        \A i, j \in 1..Len(sortedGarments) :
            i < j => orderOr3(sortedGarments[i].category)
                         <= orderOr3(sortedGarments[j].category)

completedWithOutput(response) ==
    /\ response.kind = "json"
    /\ response.data.status = "completed"
    /\ "output" \in DOMAIN response.data

answeredWithError ==
    /\ pc = "answered"
    /\ "error" \in DOMAIN routeAnswer.body
    /\ routeAnswer.status # 200

C22_WitnessTimeout ==
    /\ pc = "answered"
    /\ waitResult = processingTimeout
    /\ Len(runRequests) = 1
    /\ routeAnswer.status = 500

\* C23: waitForCompletion issues at most 40 status requests, never throws,
\* and returns the completed prediction data or an {error} value; it returns
\* 'Processing timeout' exactly when 40 responses in a row were starting,
\* in_queue or processing.
C23_WaitForCompletionReturns ==
    /\ statusRequests <= maxAttempts
    /\ statusRequests > 0 => attempts <= statusRequests
    /\ waitResult # NotReturned =>
          \/ /\ "status" \in DOMAIN waitResult
             /\ waitResult.status = "completed"
             /\ lastStatus.kind = "json"
             /\ waitResult = lastStatus.data
          \/ "error" \in DOMAIN waitResult
    /\ ( statusRequests > 0 /\ pc # "polling" ) => waitResult # NotReturned
    /\ waitResult = processingTimeout <=>
          /\ statusRequests = maxAttempts
          /\ pc # "polling"
          /\ lastStatus.kind = "json"
          /\ inProgress(lastStatus.data.status)

\* the fortieth response was still in progress
C23_Witness ==
    /\ waitResult = processingTimeout
    /\ statusRequests = maxAttempts
    /\ attempts = maxAttempts

\* a status request that could not be read ended the wait with an error value
C23_WitnessCaught ==
    /\ lastStatus.kind \in { "network", "invalid", "http" }
    /\ "error" \in DOMAIN waitResult
    /\ waitResult.error = << "Failed to check processing status" >>

\* the request the checks of the route reject, as the claim lists them
modelImageMissing ==
    \/ ~hasField(request.body, "model_image")
    \/ request.body.model_image = ""
garmentsUnusable ==
    \/ ~hasField(request.body, "garments")
    \/ request.body.garments.kind # "array"
    \/ Len(request.body.garments.items) = 0
moreThanTwoGarments ==
    /\ hasField(request.body, "garments")
    /\ request.body.garments.kind = "array"
    /\ Len(request.body.garments.items) > 2
nothingSent == runRequests = << >> /\ statusRequests = 0

\* C24: the route answers 400 when model_image is missing, when garments is
\* missing, not an array or empty, or when more than 2 garments are given,
\* and 500 when the API key is not configured; in each of these cases no
\* request is sent to the try-on service.
C24_RejectedRequestsSendNothing ==
    ( request.kind = "object" /\ pc # "received" ) =>
        IF modelImageMissing \/ garmentsUnusable \/ moreThanTwoGarments
        THEN /\ pc = "answered"
             /\ routeAnswer.status = 400
             /\ "error" \in DOMAIN routeAnswer.body
             /\ nothingSent
        ELSE fashnApiKey = "" =>
             /\ pc = "answered"
             /\ routeAnswer.status = 500
             /\ "error" \in DOMAIN routeAnswer.body
             /\ nothingSent

\* three garments were refused although the key is configured
C24_Witness ==
    /\ pc = "answered"
    /\ request.kind = "object"
    /\ moreThanTwoGarments
    /\ ~modelImageMissing
    /\ fashnApiKey # ""
    /\ routeAnswer.status = 400
    /\ nothingSent

\* a well-formed request was refused for the missing key
C24_WitnessNoKey ==
    /\ pc = "answered"
    /\ request.kind = "object"
    /\ ~(modelImageMissing \/ garmentsUnusable \/ moreThanTwoGarments)
    /\ fashnApiKey = ""
    /\ routeAnswer.status = 500
    /\ nothingSent

(***************************************************************************)
(* The closet page: selecting up to two items for a combined try-on.       *)
(***************************************************************************)
\* the updater with the size test one too wide
toggleItemSelectionUpToThree(prev, itemId) ==
    IF itemId \in prev THEN prev \ { itemId }
    ELSE IF Cardinality(prev) <= 2 THEN prev \cup { itemId }
    ELSE prev

\* the updater passed to setSelectedItems
toggleItemSelection(prev, itemId) ==
    IF itemId \in prev THEN prev \ { itemId }
    ELSE IF Cardinality(prev) < 2 THEN prev \cup { itemId }
    ELSE prev

ItemIds == { "item-1", "item-2", "item-3", "item-4", "item-5", "item-6" }

outsideCloset ==
    << distanceVars, matchVars, toneVars, samplerVars, resolverVars, appVars,
       filterVars, routeVars, afterClosetVars >>

InitCloset ==
    /\ pc = "closet"
    /\ selectionMode = FALSE
    /\ selectedItems = { }
    /\ closetCall = [ op |-> "mount" ]
    /\ selectedBefore = { }
    /\ IdleDistance
    /\ IdleMatch
    /\ IdleTone
    /\ IdleSampler
    /\ IdleResolver
    /\ IdleApp
    /\ IdleFilter
    /\ IdleRoute
    /\ IdleAfterCloset

\* the Start Mix & Match button, rendered while selectionMode is false
StartSelectionMode ==
    /\ pc = "closet"
    /\ ~selectionMode
    /\ selectionMode' = TRUE
    /\ closetCall' = [ op |-> "setSelectionMode" ]
    /\ selectedBefore' = selectedItems
    /\ UNCHANGED << pc, selectedItems, outsideCloset >>

\* a click on an item card; the handler is attached while selectionMode holds
ToggleItemSelection(itemId) ==
    /\ pc = "closet"
    /\ selectionMode
    /\ selectedItems' = toggleItemSelection(selectedItems, itemId)
    /\ closetCall' = [ op |-> "toggleItemSelection", itemId |-> itemId ]
    /\ selectedBefore' = selectedItems
    /\ UNCHANGED << pc, selectionMode, outsideCloset >>

\* the Cancel button, rendered while selectionMode holds
ExitSelectionMode ==
    /\ pc = "closet"
    /\ selectionMode
    /\ selectionMode' = FALSE
    /\ selectedItems' = { }
    /\ closetCall' = [ op |-> "exitSelectionMode" ]
    /\ selectedBefore' = selectedItems
    /\ UNCHANGED << pc, outsideCloset >>

\* the Try On button: the browser leaves the page
StartMixAndMatch ==
    /\ pc = "closet"
    /\ selectionMode
    /\ selectedItems # { }
    /\ pc' = "navigated"
    /\ closetCall' = [ op |-> "startMixAndMatch" ]
    /\ selectedBefore' = selectedItems
    /\ UNCHANGED << selectionMode, selectedItems, outsideCloset >>

NextCloset ==
    \/ StartSelectionMode
    \/ \E itemId \in ItemIds : ToggleItemSelection(itemId)
    \/ ExitSelectionMode
    \/ StartMixAndMatch

SpecCloset == InitCloset /\ [][NextCloset]_vars

toggled(itemId) == closetCall = [ op |-> "toggleItemSelection", itemId |-> itemId ]

\* C25: the selection never holds more than 2 items; toggling a selected item
\* deselects it, toggling an unselected item while 2 are selected changes
\* nothing, and exitSelectionMode empties the selection.
C25_AtMostTwoSelected ==
    /\ Cardinality(selectedItems) <= 2
    /\ selectedItems \subseteq ItemIds
    /\ \A itemId \in ItemIds :
          toggled(itemId) =>
              /\ itemId \in selectedBefore
                    => selectedItems = selectedBefore \ { itemId }
              /\ ( itemId \notin selectedBefore /\ Cardinality(selectedBefore) = 2 )
                    => selectedItems = selectedBefore
              /\ ( itemId \notin selectedBefore /\ Cardinality(selectedBefore) < 2 )
                    => selectedItems = selectedBefore \cup { itemId }
    /\ closetCall = [ op |-> "exitSelectionMode" ] => selectedItems = { }

\* a third item was clicked while two were selected
C25_Witness ==
    /\ Cardinality(selectedBefore) = 2
    /\ \E itemId \in ItemIds \ selectedBefore : toggled(itemId)
    /\ selectedItems = selectedBefore

\* selection mode was left with two items selected
C25_WitnessExit ==
    /\ closetCall = [ op |-> "exitSelectionMode" ]
    /\ Cardinality(selectedBefore) = 2
    /\ selectedItems = { }

(***************************************************************************)
(* Voice-extracted filters and the swipe page's active filters.  A value   *)
(* of a parsed JSON object is tagged with its type; a field the object     *)
(* lacks reads as undefined.                                               *)
(***************************************************************************)
Num(n) == [ t |-> "number", n |-> n ]
Bool(b) == [ t |-> "boolean", b |-> b ]
jsonNull == [ t |-> "null" ]
undefinedValue == [ t |-> "undefined" ]

\* object.key
get(object, key) == IF key \in DOMAIN object THEN object[key] ELSE undefinedValue

\* the condition of value ? a : b
truthy(value) ==
    CASE value.t = "string" -> value.v # ""
      [] value.t = "number" -> value.n # 0
      [] value.t = "boolean" -> value.b
      [] OTHER -> FALSE

\* value !== null
notNull(value) == value.t # "null"

\* value > 0; undefined converts to NaN and null to 0
greaterThanZero(value) == value.t = "number" /\ value.n > 0

\* the keys of VoiceFilters in the order of the interface
VoiceFilterKeys ==
    << "color", "type", "priceMin", "priceMax", "store", "inStockMin",
       "material", "occasion", "season" >>

\* JSON.stringify of a filters object: its members in order; a member whose
\* value is undefined is left out
stringifyFilters(filters) ==
    LET members == [ i \in 1..Len(VoiceFilterKeys) |->
                        << VoiceFilterKeys[i], get(filters, VoiceFilterKeys[i]) >> ]
    IN  SelectSeq(members, LAMBDA member : member[2].t # "undefined")

\* JSON.parse of such a text
parseFilters(text) ==
    [ key \in { text[i][1] : i \in 1..Len(text) } |->
        text[CHOOSE i \in 1..Len(text) : text[i][1] = key][2] ]

\* newFilters in handleVoiceFilterEvent
newFilters(prev, voiceFilters) ==
    [ prev EXCEPT
        !.colors = IF truthy(get(voiceFilters, "color"))
                   THEN << get(voiceFilters, "color").v >> ELSE @,
        !.type = IF truthy(get(voiceFilters, "type"))
                 THEN << get(voiceFilters, "type").v >> ELSE @,
        !.stores = IF truthy(get(voiceFilters, "store"))
                   THEN << get(voiceFilters, "store").v >> ELSE @,
        !.materials = IF truthy(get(voiceFilters, "material"))
                      THEN << get(voiceFilters, "material").v >> ELSE @,
        !.occasions = IF truthy(get(voiceFilters, "occasion"))
                      THEN << get(voiceFilters, "occasion").v >> ELSE @,
        !.seasons = IF truthy(get(voiceFilters, "season"))
                    THEN << get(voiceFilters, "season").v >> ELSE @,
        !.priceMin = IF notNull(get(voiceFilters, "priceMin"))
                     THEN get(voiceFilters, "priceMin") ELSE @,
        !.priceMax = IF notNull(get(voiceFilters, "priceMax"))
                     THEN get(voiceFilters, "priceMax") ELSE @,
        !.inStock = IF notNull(get(voiceFilters, "inStockMin"))
                    THEN Bool(greaterThanZero(get(voiceFilters, "inStockMin")))
                    ELSE @ ]

\* mergedFilters in handleVoiceFilters
mergedFilters(current, parsedFilters) ==
    [ current EXCEPT
        !.colors = IF truthy(get(parsedFilters, "color"))
                   THEN << get(parsedFilters, "color").v >> ELSE @,
        !.type = IF truthy(get(parsedFilters, "type"))
                 THEN << get(parsedFilters, "type").v >> ELSE @,
        !.stores = IF truthy(get(parsedFilters, "store"))
                   THEN << get(parsedFilters, "store").v >> ELSE @,
        !.materials = IF truthy(get(parsedFilters, "material"))
                      THEN << get(parsedFilters, "material").v >> ELSE @,
        !.occasions = IF truthy(get(parsedFilters, "occasion"))
                      THEN << get(parsedFilters, "occasion").v >> ELSE @,
        !.seasons = IF truthy(get(parsedFilters, "season"))
                    THEN << get(parsedFilters, "season").v >> ELSE @,
        !.priceMin = IF notNull(get(parsedFilters, "priceMin"))
                     THEN get(parsedFilters, "priceMin") ELSE @,
        !.priceMax = IF notNull(get(parsedFilters, "priceMax"))
                     THEN get(parsedFilters, "priceMax") ELSE @,
        !.inStock = IF notNull(get(parsedFilters, "inStockMin"))
                    THEN Bool(greaterThanZero(get(parsedFilters, "inStockMin")))
                    ELSE @ ]

\* initialFilters of the swipe page
initialFilters(filterOptionsData) ==
    [ colors |-> << >>, stores |-> << >>, materials |-> << >>,
      occasions |-> << >>, seasons |-> << >>, type |-> << >>,
      priceMin |-> Num(filterOptionsData.priceRange.min),
      priceMax |-> Num(filterOptionsData.priceRange.max),
      inStock |-> Bool(TRUE) ]

\* activeFilters before the filter data is loaded
noFilters == [ t |-> "null" ]

(***************************************************************************)
(* The filters objects handleFilterRequest parses from the model's answer  *)
(* and the states of the swipe page they meet.                             *)
(***************************************************************************)
field(key, values) == { << >> } \cup { key :> value : value \in values }

VoiceFilterChoices ==
    { c @@ rest @@ numbers :
        c \in field("color", { jsonNull, Str(""), Str("Blue") }),
        rest \in { << >>,
                   [ type |-> jsonNull, store |-> jsonNull, material |-> jsonNull,
                     occasion |-> jsonNull, season |-> jsonNull ],
                   [ type |-> Str("pants"), store |-> Str("Uniqlo"),
                     material |-> Str("denim"), occasion |-> Str("casual"),
                     season |-> Str("winter") ] },
        numbers \in { << >>,
                      [ priceMin |-> jsonNull, priceMax |-> jsonNull,
                        inStockMin |-> jsonNull ],
                      [ priceMin |-> Num(40), priceMax |-> Num(60),
                        inStockMin |-> Num(2) ],
                      [ priceMin |-> Num(0), priceMax |-> jsonNull,
                        inStockMin |-> Num(0) ],
                      [ priceMax |-> Num(60) ] } }

\* filters as the filter panel leaves them
PanelFilterChoices ==
    { initialFilters(SampleFilterOptions),
      [ initialFilters(SampleFilterOptions) EXCEPT
          !.colors = << "Red" >>, !.type = << "shirt" >>, !.stores = << "Zara" >>,
          !.materials = << "cotton" >>, !.occasions = << "formal" >>,
          !.seasons = << "summer" >>, !.priceMin = Num(30), !.priceMax = Num(70),
          !.inStock = Bool(FALSE) ] }

nothingApplied == [ path |-> "none" ]

outsideVoice ==
    << distanceVars, matchVars, toneVars, samplerVars, resolverVars, appVars,
       filterVars, routeVars, closetVars, afterVoiceVars >>

InitVoice ==
    /\ pc = "voice"
    /\ voiceStorage = << >>
    /\ swipeMounted = FALSE
    /\ swipeActiveFilters = noFilters
    /\ voiceApplied = nothingApplied
    /\ IdleDistance
    /\ IdleMatch
    /\ IdleTone
    /\ IdleSampler
    /\ IdleResolver
    /\ IdleApp
    /\ IdleFilter
    /\ IdleRoute
    /\ IdleCloset
    /\ IdleAfterVoice

\* handleVoiceFilters, run by the effect at mount and whenever filterOptions
\* or activeFilters changed: the pair of the filters and the stored item after
handleVoiceFilters(current, storage) ==
    IF storage # << >> /\ current # noFilters
    THEN << mergedFilters(current, parseFilters(storage[1])), << >> >>
    ELSE << current, storage >>

\* handleFilterRequest from the parsed answer on; the listener of a mounted
\* swipe page runs inside dispatchEvent and the effect after the re-render
HandleFilterRequest(filters, hasClothingType) ==
    /\ pc = "voice"
    /\ IF hasClothingType /\ ~truthy(get(filters, "type"))
       THEN UNCHANGED << voiceStorage, swipeActiveFilters, voiceApplied >>
       ELSE LET stored == << stringifyFilters(filters) >>
            IN  IF swipeMounted /\ swipeActiveFilters # noFilters
                THEN LET fromEvent == newFilters(swipeActiveFilters, filters)
                         after == handleVoiceFilters(fromEvent, stored)
                     IN  /\ swipeActiveFilters' = after[1]
                         /\ voiceStorage' = after[2]
                         /\ voiceApplied' = [ path |-> "event", filters |-> filters,
                                              before |-> swipeActiveFilters ]
                ELSE /\ voiceStorage' = stored
                     /\ voiceApplied' = [ path |-> "pending", filters |-> filters ]
                     /\ UNCHANGED swipeActiveFilters
    /\ UNCHANGED << pc, swipeMounted, outsideVoice >>

\* the swipe page mounts; its filter data is not loaded yet
MountSwipePage ==
    /\ pc = "voice"
    /\ ~swipeMounted
    /\ swipeMounted' = TRUE
    /\ swipeActiveFilters' = noFilters
    /\ UNCHANGED << pc, voiceStorage, voiceApplied, outsideVoice >>

\* the filter data arrived: setFilterOptions, setActiveFilters(initialFilters)
FilterDataLoaded ==
    /\ pc = "voice"
    /\ swipeMounted
    /\ swipeActiveFilters = noFilters
    /\ LET loaded == initialFilters(SampleFilterOptions)
           after == handleVoiceFilters(loaded, voiceStorage)
       IN  /\ swipeActiveFilters' = after[1]
           /\ voiceStorage' = after[2]
           /\ voiceApplied' = IF voiceStorage # << >>
                              THEN [ path |-> "storage",
                                     filters |-> voiceApplied.filters,
                                     before |-> loaded ]
                              ELSE nothingApplied
    /\ UNCHANGED << pc, swipeMounted, outsideVoice >>

\* the user sets filters in the filter panel
SetActiveFilters(choice) ==
    /\ pc = "voice"
    /\ swipeMounted
    /\ swipeActiveFilters # noFilters
    /\ swipeActiveFilters # choice
    /\ LET after == handleVoiceFilters(choice, voiceStorage)
       IN  /\ swipeActiveFilters' = after[1]
           /\ voiceStorage' = after[2]
    /\ voiceApplied' = nothingApplied
    /\ UNCHANGED << pc, swipeMounted, outsideVoice >>

\* the user leaves the swipe page
UnmountSwipePage ==
    /\ pc = "voice"
    /\ swipeMounted
    /\ swipeMounted' = FALSE
    /\ swipeActiveFilters' = noFilters
    /\ voiceApplied' = IF voiceApplied.path = "pending" THEN voiceApplied
                       ELSE nothingApplied
    /\ UNCHANGED << pc, voiceStorage, outsideVoice >>

NextVoice ==
    \/ \E filters \in VoiceFilterChoices, hasClothingType \in BOOLEAN :
          HandleFilterRequest(filters, hasClothingType)
    \/ MountSwipePage
    \/ FilterDataLoaded
    \/ \E choice \in PanelFilterChoices : SetActiveFilters(choice)
    \/ UnmountSwipePage

SpecVoice == InitVoice /\ [][NextVoice]_vars

(***************************************************************************)
(* Claims about applying voice filters.                                    *)
(***************************************************************************)
applied == voiceApplied.path \in { "event", "storage" }

\* the voice field and the filter field it sets
VoiceToFilterField ==
    { << "color", "colors" >>, << "type", "type" >>, << "store", "stores" >>,
      << "material", "materials" >>, << "occasion", "occasions" >>,
      << "season", "seasons" >>, << "priceMin", "priceMin" >>,
      << "priceMax", "priceMax" >>, << "inStockMin", "inStock" >> }

\* the voice filter carries a value for the key: a non-empty string or a number
carriesValue(filters, key) ==
    /\ key \in DOMAIN filters
    /\ \/ filters[key].t = "number"
       \/ filters[key].t = "string" /\ filters[key].v # ""

\* the value the filter field takes from a voice value
valueFor(key, value) ==
    IF value.t = "string" THEN << value.v >>
    ELSE IF key = "inStockMin" THEN Bool(value.n > 0)
    ELSE value

\* C26: applying a voice filter object changes only the filter fields for
\* which it carries a value; a field whose voice value is null or absent
\* keeps its previous value, through the stored entry and through the event.
C26_OnlyFieldsWithValueChange ==
    applied =>
        \A pair \in VoiceToFilterField :
            swipeActiveFilters[pair[2]] =
                IF carriesValue(voiceApplied.filters, pair[1])
                THEN valueFor(pair[1], voiceApplied.filters[pair[1]])
                ELSE voiceApplied.before[pair[2]]

\* a voice filter without priceMin was applied and priceMin is undefined now
C26_AbsentPriceOverwritten ==
    /\ applied
    /\ "priceMin" \notin DOMAIN voiceApplied.filters
    /\ voiceApplied.before.priceMin = Num(20)
    /\ swipeActiveFilters.priceMin = undefinedValue

\* with every key present the claim holds, and both paths give the filters
\* either merge computes from the filters before
C26_HoldsWhenNoKeyIsAbsent ==
    applied =>
        /\ swipeActiveFilters = newFilters(voiceApplied.before, voiceApplied.filters)
        /\ swipeActiveFilters =
              mergedFilters(voiceApplied.before,
                            parseFilters(stringifyFilters(voiceApplied.filters)))
        /\ \A pair \in VoiceToFilterField :
              pair[1] \in DOMAIN voiceApplied.filters =>
                  swipeActiveFilters[pair[2]] =
                      IF carriesValue(voiceApplied.filters, pair[1])
                      THEN valueFor(pair[1], voiceApplied.filters[pair[1]])
                      ELSE voiceApplied.before[pair[2]]

\* the same voice filters applied through the stored entry
C26_AppliedFromStorage ==
    /\ voiceApplied.path = "storage"
    /\ voiceStorage = << >>
    /\ swipeActiveFilters.colors = << "Blue" >>

(***************************************************************************)
(* The product filter manager: updates of the material, occasion and       *)
(* season attributes and the filter options derived from the map.          *)
(***************************************************************************)
\* how many update calls a run makes at most
MaxLLMCalls == 2

\* the attribute values in use, in the order Array.prototype.sort gives
\* them (by UTF-16 code units)
CodeUnitOrder ==
    << "casual", "cotton", "formal", "linen", "summer", "winter", "wool" >>

\* [...new Set(products.map(p => p[key]))].filter(Boolean).sort()
distinctSorted(map, key) ==
    LET values == { map[i][2][key] :
                      i \in { j \in 1..Len(map) : key \in DOMAIN map[j][2] } }
    IN  SelectSeq(CodeUnitOrder, LAMBDA value : value \in values /\ value # "")

refreshFilterOptions(map, options) ==
    [ options EXCEPT !.materials = distinctSorted(map, "material"),
                     !.occasions = distinctSorted(map, "occasion"),
                     !.seasons = distinctSorted(map, "season") ]

\* the guarded assignment both update methods make for one product id.  An
\* inherited member passes the guard; spreading it copies nothing, and the
\* assignment creates an own entry holding the updates alone.
updateEntry(map, productId, updates) ==
    LET found == attributesOf(map, productId)
    IN  IF found.kind = "own"
        THEN [ i \in 1..Len(map) |->
                 IF map[i][1] = productId
                 THEN << productId, updates @@ map[i][2] >>
                 ELSE map[i] ]
        ELSE IF found.kind = "inherited"
             THEN Append(map, << productId, updates >>)
             ELSE map

RECURSIVE updateEntries(_, _)
\* Object.entries(updates).forEach(...)
updateEntries(map, entries) ==
    IF entries = << >> THEN map
    ELSE updateEntries(updateEntry(map, entries[1][1], entries[1][2]), Tail(entries))

updateLLMAttributes(manager, productId, updates) ==
    [ manager EXCEPT !.filtersMap = updateEntry(@, productId, updates) ]

bulkUpdateLLMAttributes(manager, entries) ==
    LET map == updateEntries(manager.filtersMap, entries)
    IN  [ filtersMap |-> map,
          filterOptions |-> refreshFilterOptions(map, manager.filterOptions) ]

\* the filter options file that goes with SampleFiltersMap
SampleManagerOptions ==
    [ priceRange |-> SampleFilterOptions.priceRange,
      materials |-> << "cotton", "wool" >>,
      occasions |-> << "casual" >>,
      seasons |-> << "summer", "winter" >> ]

UpdateChoices ==
    { << >>,
      [ material |-> "linen" ],
      [ material |-> "" ],
      [ material |-> "cotton", occasion |-> "formal" ],
      [ occasion |-> "casual", season |-> "winter" ],
      [ material |-> "wool", occasion |-> "formal", season |-> "summer" ] }

UpdateIds == { ShirtId, SweaterId, UnlistedId, ConstructorName }

BulkChoices ==
    { << >> }
    \cup { << << id, u >> >> : id \in UpdateIds, u \in UpdateChoices }
    \cup { << << ShirtId, u >>, << SweaterId, v >> >> :
             u \in { [ material |-> "linen" ], [ season |-> "winter" ] },
             v \in UpdateChoices }
    \cup { << << UnlistedId, u >>, << CardiganId, [ material |-> "" ] >> >> :
             u \in UpdateChoices }

outsideManager ==
    << distanceVars, matchVars, toneVars, samplerVars, resolverVars, appVars,
       productIds, activeFilters, filteredIds, routeVars, closetVars, voiceVars,
       afterManagerVars >>

InitManager ==
    /\ pc = "manager"
    /\ filtersMap = SampleFiltersMap
    /\ filterOptions = SampleManagerOptions
    /\ managerCall = [ method |-> "constructor" ]
    /\ mapBefore = SampleFiltersMap
    /\ optionsBefore = SampleManagerOptions
    /\ llmCalls = 0
    /\ productIds = None
    /\ activeFilters = None
    /\ filteredIds = None
    /\ IdleDistance
    /\ IdleMatch
    /\ IdleTone
    /\ IdleSampler
    /\ IdleResolver
    /\ IdleApp
    /\ IdleRoute
    /\ IdleCloset
    /\ IdleVoice
    /\ IdleAfterManager

manager == [ filtersMap |-> filtersMap, filterOptions |-> filterOptions ]

Called(call, after) ==
    /\ pc = "manager"
    /\ llmCalls < MaxLLMCalls
    /\ llmCalls' = llmCalls + 1
    /\ managerCall' = call
    /\ mapBefore' = filtersMap
    /\ optionsBefore' = filterOptions
    /\ filtersMap' = after.filtersMap
    /\ filterOptions' = after.filterOptions
    /\ UNCHANGED << pc, outsideManager >>

UpdateLLMAttributes(productId, updates) ==
    Called([ method |-> "updateLLMAttributes", ids |-> { productId } ],
           updateLLMAttributes(manager, productId, updates))

BulkUpdateLLMAttributes(entries) ==
    Called([ method |-> "bulkUpdateLLMAttributes",
             ids |-> { entries[i][1] : i \in 1..Len(entries) } ],
           bulkUpdateLLMAttributes(manager, entries))

NextManager ==
    \/ \E productId \in UpdateIds, updates \in UpdateChoices :
          UpdateLLMAttributes(productId, updates)
    \/ \E entries \in BulkChoices : BulkUpdateLLMAttributes(entries)

SpecManager == InitManager /\ [][NextManager]_vars

(***************************************************************************)
(* Claims about the attribute updates.                                     *)
(***************************************************************************)
idsOf(map) == { map[i][1] : i \in 1..Len(map) }
entryOf(map, id) == map[CHOOSE i \in 1..Len(map) : map[i][1] = id][2]

\* the non-empty values of an attribute present in the map
valuesIn(map, key) ==
    { entryOf(map, id)[key] : id \in { x \in idsOf(map) : key \in DOMAIN entryOf(map, x) } }
        \ { "" }

codeUnitRank(value) ==
    CHOOSE i \in 1..Len(CodeUnitOrder) : CodeUnitOrder[i] = value

\* list is the sorted list of the distinct members of values
sortedSetOf(list, values) ==
    /\ { list[i] : i \in 1..Len(list) } = values
    /\ \A i, j \in 1..Len(list) :
          i < j => codeUnitRank(list[i]) < codeUnitRank(list[j])

\* C27: after any sequence of updateLLMAttributes and bulkUpdateLLMAttributes
\* calls the materials, occasions and seasons options are the sorted sets of
\* the non-empty values in the map; an update for an id that is not in the
\* map changes nothing; no update changes color, price, store or inStock.
C27_OptionsFollowTheMap ==
    /\ sortedSetOf(filterOptions.materials, valuesIn(filtersMap, "material"))
    /\ sortedSetOf(filterOptions.occasions, valuesIn(filtersMap, "occasion"))
    /\ sortedSetOf(filterOptions.seasons, valuesIn(filtersMap, "season"))
    /\ ( /\ managerCall.method # "constructor"
         /\ managerCall.ids \cap idsOf(mapBefore) = { } )
          => /\ filtersMap = mapBefore
             /\ filterOptions = optionsBefore
    /\ \A id \in idsOf(mapBefore) :
          /\ id \in idsOf(filtersMap)
          /\ \A key \in { "color", "price", "store", "inStock" } :
                key \in DOMAIN entryOf(mapBefore, id) =>
                    entryOf(filtersMap, id)[key] = entryOf(mapBefore, id)[key]

\* updateLLMAttributes gave a product a material the options do not list
C27_OptionsStale ==
    /\ managerCall.method = "updateLLMAttributes"
    /\ "linen" \in valuesIn(filtersMap, "material")
    /\ filterOptions.materials = << "cotton", "wool" >>

\* an update for 'constructor', which the map did not hold, created an entry
C27_EntryCreated ==
    /\ managerCall.method # "constructor"
    /\ managerCall.ids = { ConstructorName }
    /\ ConstructorName \notin idsOf(mapBefore)
    /\ ConstructorName \in idsOf(filtersMap)

\* what does hold: a bulk update leaves the options in step with the map, an
\* update for an id that names nothing changes nothing in the map, and no
\* update touches the other attributes
C27_HoldsAfterBulkUpdates ==
    /\ managerCall.method = "bulkUpdateLLMAttributes" =>
          /\ sortedSetOf(filterOptions.materials, valuesIn(filtersMap, "material"))
          /\ sortedSetOf(filterOptions.occasions, valuesIn(filtersMap, "occasion"))
          /\ sortedSetOf(filterOptions.seasons, valuesIn(filtersMap, "season"))
    /\ ( /\ managerCall.method # "constructor"
         /\ managerCall.ids = { UnlistedId } ) => filtersMap = mapBefore
    /\ \A id \in idsOf(mapBefore) :
          /\ id \in idsOf(filtersMap)
          /\ \A key \in { "color", "price", "store", "inStock" } :
                key \in DOMAIN entryOf(mapBefore, id) =>
                    entryOf(filtersMap, id)[key] = entryOf(mapBefore, id)[key]

(***************************************************************************)
(* The try-on pages (single product and multi): startTryOn /               *)
(* startMultiTryOn, pollTryOnStatus and retakePhoto.  Both pages have the  *)
(* same code up to the messages.  A string of the page state is tagged     *)
(* (Str) so that it compares with null.                                    *)
(***************************************************************************)
\* how many times the page is mounted in a run
MaxMounts == 2

initialTryOnState ==
    [ isProcessing |-> FALSE, predictionId |-> null, resultImage |-> null,
      error |-> null, status |-> "" ]

submittingState ==
    [ isProcessing |-> TRUE, predictionId |-> null, resultImage |-> null,
      error |-> null, status |-> "submitting" ]

\* the catch clauses: isProcessing false and the message of the error
failedWith(prev, message) ==
    [ prev EXCEPT !.isProcessing = FALSE, !.error = Str(message) ]

\* startTryOn / startMultiTryOn from the response of the POST on: the state
\* and whether pollTryOnStatus is called
afterSubmit(prev, response) ==
    IF response.kind = "json"
    THEN [ state |-> [ prev EXCEPT !.predictionId = Str(<< response.data.id >>),
                                   !.status = "processing" ],
           polls |-> TRUE ]
    ELSE [ state |->
             failedWith(prev,
                CASE response.kind = "http" ->
                        << "API request failed: ", response.status >>
                  [] response.kind = "garment" ->
                        << "Failed to load garment image for ", response.name >>
                  [] response.kind = "network" -> << "Failed to fetch" >>
                  [] OTHER -> << "Unexpected token" >>),
           polls |-> FALSE ]

\* the message thrown for a failed prediction
processingFailed(kind) ==
    IF kind = "single" THEN << "Try-on processing failed" >>
    ELSE << "Multi try-on processing failed" >>

\* pollTryOnStatus from the response of the status request on: the state
\* and whether the timer for the next poll is set
pollTryOnStatus(kind, prev, response) ==
    IF response.kind = "http"
    THEN [ state |-> failedWith(prev, << "Status check failed: ", response.status >>),
           again |-> FALSE ]
    ELSE IF response.kind = "network"
    THEN [ state |-> failedWith(prev, << "Failed to fetch" >>), again |-> FALSE ]
    ELSE IF response.kind = "invalid"
    THEN [ state |-> failedWith(prev, << "Unexpected token" >>), again |-> FALSE ]
    ELSE LET data == response.data
         IN  IF data.status = "completed"
             THEN IF "output" \in DOMAIN data
                  THEN [ state |-> [ prev EXCEPT !.isProcessing = FALSE,
                                                 !.resultImage = Str(<< data.output[1] >>),
                                                 !.status = "completed" ],
                         again |-> FALSE ]
                  ELSE [ state |-> failedWith(prev,
                                      << "Cannot read properties of undefined" >>),
                         again |-> FALSE ]
             ELSE IF data.status = "failed"
                  THEN [ state |-> failedWith(prev,
                                      IF data.message = << >>
                                      THEN processingFailed(kind)
                                      ELSE data.message),
                         again |-> FALSE ]
             ELSE IF inProgress(data.status)
                  THEN [ state |-> [ prev EXCEPT !.status = data.status ],
                         again |-> TRUE ]
             ELSE [ state |-> prev, again |-> FALSE ]

\* what the page renders
showsResult == tryOnState.resultImage # null
showsButtons ==
    /\ ~showsResult
    /\ capturedImage # null
    /\ ~tryOnState.isProcessing

SubmitResponses ==
    { [ kind |-> "network" ], [ kind |-> "invalid" ],
      [ kind |-> "http", status |-> 500 ],
      [ kind |-> "garment", name |-> "Linen Shirt" ] }
    \cup { [ kind |-> "json", data |-> [ id |-> id ] ] : id \in PredictionIds }

NoPoll == [ kind |-> "none" ]

outsideTryOn ==
    << distanceVars, matchVars, toneVars, samplerVars, resolverVars, appVars,
       filterVars, routeVars, closetVars, voiceVars, managerVars,
       afterTryOnVars >>

InitTryOn ==
    /\ pc = "try-on"
    /\ pageKind \in { "single", "multi" }
    /\ tryOnMounted = TRUE
    /\ pageInstance = 1
    /\ tryOnState = initialTryOnState
    /\ capturedImage = null
    /\ tryOnFlows = { }
    /\ lastPoll = NoPoll
    /\ retaken = FALSE
    /\ IdleDistance
    /\ IdleMatch
    /\ IdleTone
    /\ IdleSampler
    /\ IdleResolver
    /\ IdleApp
    /\ IdleFilter
    /\ IdleRoute
    /\ IdleCloset
    /\ IdleVoice
    /\ IdleManager
    /\ IdleAfterTryOn

\* setTryOnState called by a flow: it reaches the state of the instance the
\* flow belongs to, which is the page's state while that instance is mounted
ownsPage(flow) == tryOnMounted /\ flow.instance = pageInstance

\* capturePhoto: the camera frame becomes capturedImage
CaptureTryOnPhoto ==
    /\ pc = "try-on"
    /\ tryOnMounted
    /\ ~showsResult
    /\ capturedImage = null
    /\ capturedImage' = Str(<< "data:image/jpeg;base64,photo" >>)
    /\ UNCHANGED << pc, pageKind, tryOnMounted, pageInstance, tryOnState,
                    tryOnFlows, lastPoll, retaken, outsideTryOn >>

\* the Try On / Retry button: startTryOn up to the fetch of the POST
StartTryOn ==
    /\ pc = "try-on"
    /\ tryOnMounted
    /\ showsButtons
    /\ tryOnState' = submittingState
    /\ tryOnFlows' = tryOnFlows \cup
          { [ instance |-> pageInstance, phase |-> "submitting", id |-> None ] }
    /\ lastPoll' = NoPoll
    /\ retaken' = FALSE
    /\ UNCHANGED << pc, pageKind, tryOnMounted, pageInstance, capturedImage,
                    outsideTryOn >>

\* the POST is answered (or, on the multi page, a garment image failed to
\* load): the rest of startTryOn, and pollTryOnStatus up to its fetch
SubmitResponse(flow, response) ==
    /\ pc = "try-on"
    /\ flow \in tryOnFlows
    /\ flow.phase = "submitting"
    /\ response.kind = "garment" => pageKind = "multi"
    /\ LET after == afterSubmit(tryOnState, response)
       IN  /\ tryOnState' = IF ownsPage(flow) THEN after.state ELSE tryOnState
           /\ tryOnFlows' =
                 (tryOnFlows \ { flow }) \cup
                 IF after.polls
                 THEN { [ flow EXCEPT !.phase = "fetching", !.id = response.data.id ] }
                 ELSE { }
    /\ UNCHANGED << pc, pageKind, tryOnMounted, pageInstance, capturedImage,
                    lastPoll, retaken, outsideTryOn >>

\* a status request is answered: the rest of pollTryOnStatus
PollResponse(flow, response) ==
    /\ pc = "try-on"
    /\ flow \in tryOnFlows
    /\ flow.phase = "fetching"
    /\ LET after == pollTryOnStatus(pageKind, tryOnState, response)
       IN  /\ tryOnState' = IF ownsPage(flow) THEN after.state ELSE tryOnState
           /\ tryOnFlows' =
                 (tryOnFlows \ { flow }) \cup
                 IF after.again THEN { [ flow EXCEPT !.phase = "waiting" ] } ELSE { }
    /\ lastPoll' = IF ownsPage(flow) THEN response ELSE lastPoll
    /\ UNCHANGED << pc, pageKind, tryOnMounted, pageInstance, capturedImage,
                    retaken, outsideTryOn >>

\* the 3 s timer fires: pollTryOnStatus up to its fetch
PollTimer(flow) ==
    /\ pc = "try-on"
    /\ flow \in tryOnFlows
    /\ flow.phase = "waiting"
    /\ tryOnFlows' = (tryOnFlows \ { flow }) \cup { [ flow EXCEPT !.phase = "fetching" ] }
    /\ UNCHANGED << pc, pageKind, tryOnMounted, pageInstance, tryOnState,
                    capturedImage, lastPoll, retaken, outsideTryOn >>

\* the Retake / Try Again button
RetakePhoto ==
    /\ pc = "try-on"
    /\ tryOnMounted
    /\ showsResult \/ showsButtons
    /\ capturedImage' = null
    /\ tryOnState' = initialTryOnState
    /\ lastPoll' = NoPoll
    /\ retaken' = TRUE
    /\ UNCHANGED << pc, pageKind, tryOnMounted, pageInstance, tryOnFlows,
                    outsideTryOn >>

\* the back link: the page unmounts; nothing stops its timers and requests
LeaveTryOnPage ==
    /\ pc = "try-on"
    /\ tryOnMounted
    /\ tryOnMounted' = FALSE
    /\ tryOnState' = initialTryOnState
    /\ capturedImage' = null
    /\ lastPoll' = NoPoll
    /\ retaken' = FALSE
    /\ UNCHANGED << pc, pageKind, pageInstance, tryOnFlows, outsideTryOn >>

\* the user opens the page again: a new instance with the initial state
OpenTryOnPage ==
    /\ pc = "try-on"
    /\ ~tryOnMounted
    /\ pageInstance < MaxMounts
    /\ tryOnMounted' = TRUE
    /\ pageInstance' = pageInstance + 1
    /\ UNCHANGED << pc, pageKind, tryOnState, capturedImage, tryOnFlows,
                    lastPoll, retaken, outsideTryOn >>

NextTryOn ==
    \/ CaptureTryOnPhoto
    \/ StartTryOn
    \/ \E flow \in tryOnFlows, response \in SubmitResponses :
          SubmitResponse(flow, response)
    \/ \E flow \in tryOnFlows, response \in StatusResponses :
          PollResponse(flow, response)
    \/ \E flow \in tryOnFlows : PollTimer(flow)
    \/ RetakePhoto
    \/ LeaveTryOnPage
    \/ OpenTryOnPage

SpecTryOn == InitTryOn /\ [][NextTryOn]_vars

(***************************************************************************)
(* Claims about the try-on pages.                                          *)
(***************************************************************************)
ownFlows == { flow \in tryOnFlows : flow.instance = pageInstance }
pollingChains == { flow \in tryOnFlows : flow.phase \in { "fetching", "waiting" } }

reportsInProgress(response) ==
    response.kind = "json" /\ inProgress(response.data.status)

leftProcessing ==
    /\ ~tryOnState.isProcessing
    /\ tryOnState.resultImage # null \/ tryOnState.error # null

\* C28: for every status value the service may report, once the service
\* stops reporting an in-progress status the page has isProcessing = false
\* with resultImage or error set.
C28_LeavesProcessing ==
    ( /\ tryOnMounted
      /\ lastPoll # NoPoll
      /\ ~reportsInProgress(lastPoll) ) => leftProcessing

\* the service reported a status outside the five the page tests for: the
\* page shows the spinner and nothing is left to end it
C28_StuckInProcessing ==
    /\ tryOnMounted
    /\ lastPoll.kind = "json"
    /\ lastPoll.data.status = "canceled"
    /\ tryOnState.isProcessing
    /\ tryOnState.resultImage = null
    /\ tryOnState.error = null
    /\ ownFlows = { }

\* for completed, failed and unreadable responses the claim holds
C28_HoldsForTestedStatuses ==
    ( /\ tryOnMounted
      /\ lastPoll # NoPoll
      /\ ~reportsInProgress(lastPoll)
      /\ lastPoll.kind = "json" => lastPoll.data.status \in { "completed", "failed" } )
        => leftProcessing

C29_TwoChainsPolling ==
    /\ tryOnMounted
    /\ \E old \in pollingChains, new \in pollingChains :
          /\ old.instance < pageInstance
          /\ new.instance = pageInstance

\* on a page that stays mounted: the buttons that call retakePhoto and
\* startTryOn are rendered only while nothing of the page is in flight
C29_HoldsWhileMounted ==
    tryOnMounted =>
        /\ retaken => tryOnState = initialTryOnState /\ ownFlows = { }
        /\ Cardinality(ownFlows) <= 1
        /\ ( showsResult \/ showsButtons ) => ownFlows = { }
        /\ \A flow \in tryOnFlows :
              flow.instance # pageInstance => flow.instance < pageInstance

(***************************************************************************)
(* useSkinToneListener and the two revisions of the swipe page that call   *)
(* it: src/app/swipe/page.tsx in the body of the component, part_004       *)
(* inside an effect with an empty dependency list.  A listener is the      *)
(* number of the addEventListener call that registered it: every call of   *)
(* useSkinToneListener creates a new handleUpdate function.                *)
(***************************************************************************)
\* how many times the page renders in a run
MaxRenders == 5

\* useSkinToneListener in a browser: the listeners afterwards and the
\* listener its cleanup function removes
useSkinToneListener(listeners, added) ==
    [ listeners |-> listeners \cup { added + 1 }, removes |-> added + 1 ]

\* the cleanup function returned by useSkinToneListener
cleanup(listeners, listener) == listeners \ { listener }

ListenerRevisions == { "swipe/page.tsx", "part_004" }

outsideListener ==
    << distanceVars, matchVars, toneVars, samplerVars, resolverVars, appVars,
       filterVars, routeVars, closetVars, voiceVars, managerVars, tryOnVars >>

InitListener ==
    /\ pc = "listening"
    /\ listenerRevision \in ListenerRevisions
    /\ listenerMounted = FALSE
    /\ windowListeners = { }
    /\ listenersAdded = 0
    /\ effectListener = 0
    /\ rendersDone = 0
    /\ callbackInvocations = 0
    /\ lastListenerStep = "start"
    /\ IdleDistance
    /\ IdleMatch
    /\ IdleTone
    /\ IdleSampler
    /\ IdleResolver
    /\ IdleApp
    /\ IdleFilter
    /\ IdleRoute
    /\ IdleCloset
    /\ IdleVoice
    /\ IdleManager
    /\ IdleTryOn

\* one render of the component: swipe/page.tsx calls useSkinToneListener in
\* its body and drops the cleanup function it returns
renderBody ==
    IF listenerRevision = "swipe/page.tsx"
    THEN /\ windowListeners' =
               useSkinToneListener(windowListeners, listenersAdded).listeners
         /\ listenersAdded' = listenersAdded + 1
    ELSE UNCHANGED << windowListeners, listenersAdded >>

\* the page mounts: the first render, then the effects with an empty
\* dependency list; part_004 calls useSkinToneListener there and returns
\* its cleanup function
MountListeningPage ==
    /\ pc = "listening"
    /\ ~listenerMounted
    /\ rendersDone < MaxRenders
    /\ listenerMounted' = TRUE
    /\ rendersDone' = rendersDone + 1
    /\ IF listenerRevision = "part_004"
       THEN LET call == useSkinToneListener(windowListeners, listenersAdded)
            IN  /\ windowListeners' = call.listeners
                /\ listenersAdded' = listenersAdded + 1
                /\ effectListener' = call.removes
       ELSE /\ renderBody
            /\ UNCHANGED effectListener
    /\ lastListenerStep' = "mount"
    /\ UNCHANGED << pc, listenerRevision, callbackInvocations, outsideListener >>

\* a state change of the page (a swipe, a loaded product, ...) renders it again
Rerender ==
    /\ pc = "listening"
    /\ listenerMounted
    /\ rendersDone < MaxRenders
    /\ rendersDone' = rendersDone + 1
    /\ renderBody
    /\ lastListenerStep' = "render"
    /\ UNCHANGED << pc, listenerRevision, listenerMounted, effectListener,
                    callbackInvocations, outsideListener >>

\* storeSkinTone or clearStoredSkinTone dispatches skinToneUpdated: every
\* registered listener calls its callback; the callbacks set the page's
\* state, which renders the page once more
SkinToneUpdated ==
    /\ pc = "listening"
    /\ callbackInvocations' = Cardinality(windowListeners)
    /\ IF listenerMounted /\ windowListeners # { } /\ rendersDone < MaxRenders
       THEN /\ rendersDone' = rendersDone + 1
            /\ renderBody
       ELSE UNCHANGED << rendersDone, windowListeners, listenersAdded >>
    /\ lastListenerStep' = "update"
    /\ UNCHANGED << pc, listenerRevision, listenerMounted, effectListener,
                    outsideListener >>

\* the page unmounts: React runs the cleanup functions the effects returned
UnmountListeningPage ==
    /\ pc = "listening"
    /\ listenerMounted
    /\ listenerMounted' = FALSE
    /\ IF listenerRevision = "part_004"
       THEN /\ windowListeners' = cleanup(windowListeners, effectListener)
            /\ effectListener' = 0
       ELSE UNCHANGED << windowListeners, effectListener >>
    /\ lastListenerStep' = "unmount"
    /\ UNCHANGED << pc, listenerRevision, listenersAdded, rendersDone,
                    callbackInvocations, outsideListener >>

NextListener ==
    \/ MountListeningPage
    \/ Rerender
    \/ SkinToneUpdated
    \/ UnmountListeningPage

SpecListener == InitListener /\ [][NextListener]_vars

\* C30: a mounted swipe page has exactly one skinToneUpdated listener however
\* often it renders, so an update invokes its callback exactly once; after
\* unmount no listener of the page remains.
C30_ExactlyOneListener ==
    /\ listenerMounted => Cardinality(windowListeners) = 1
    /\ ( listenerMounted /\ lastListenerStep = "update" ) => callbackInvocations = 1
    /\ ~listenerMounted => windowListeners = { }

\* swipe/page.tsx rendered three times: three listeners, and an update
\* invoked the callback more than once
C30_ListenersPileUp ==
    /\ listenerRevision = "swipe/page.tsx"
    /\ listenerMounted
    /\ lastListenerStep = "update"
    /\ callbackInvocations >= 2
    /\ Cardinality(windowListeners) >= 3

\* swipe/page.tsx was unmounted and its listeners are still registered
C30_ListenersSurviveUnmount ==
    /\ listenerRevision = "swipe/page.tsx"
    /\ ~listenerMounted
    /\ windowListeners # { }

\* the revision that registers inside the effect satisfies the claim
C30_HoldsForEffectRevision ==
    listenerRevision = "part_004" =>
        /\ listenerMounted => windowListeners = { effectListener }
        /\ ( listenerMounted /\ lastListenerStep = "update" ) => callbackInvocations = 1
        /\ ~listenerMounted => windowListeners = { }

====
